---- MODULE Spec2Model ----
(***************************************************************************)
(* json4web: a serde codec between Rust values and a JSON-derived text.    *)
(* Text is a sequence of Unicode code points; the decoder's cursor is the  *)
(* remaining suffix of the input (Deserializer.0), the encoder's sink is   *)
(* the text appended so far (Serializer.0, concatenated by to_string).     *)
(***************************************************************************)
EXTENDS Integers, Sequences, FiniteSets, TLC

(***************************************************************************)
(* Characters                                                              *)
(***************************************************************************)

\* The printable ASCII characters U+0020..U+007E in code point order (U+0060 by name).
AsciiTable ==
  << " ", "!", "\"", "#", "$", "%", "&", "'", "(", ")", "*", "+", ",", "-", ".", "/",
     "0", "1", "2", "3", "4", "5", "6", "7", "8", "9", ":", ";", "<", "=", ">", "?",
     "@", "A", "B", "C", "D", "E", "F", "G", "H", "I", "J", "K", "L", "M", "N", "O",
     "P", "Q", "R", "S", "T", "U", "V", "W", "X", "Y", "Z", "[", "\\", "]", "^", "_",
     "GRAVE", "a", "b", "c", "d", "e", "f", "g", "h", "i", "j", "k", "l", "m", "n", "o",
     "p", "q", "r", "s", "t", "u", "v", "w", "x", "y", "z", "{", "|", "}", "~" >>

OrdTable ==
  [c \in {AsciiTable[i] : i \in 1..Len(AsciiTable)} |->
     31 + (CHOOSE i \in 1..Len(AsciiTable) : AsciiTable[i] = c)]

\* The code point of a printable ASCII character written as a one-character string.
Ord(c) == OrdTable[c]

\* A text literal: the code points of a sequence of one-character strings.
Lit(cs) == [i \in 1..Len(cs) |-> Ord(cs[i])]

\* The control characters the codec names.
BS == 8
TAB == 9
LF == 10
FF == 12
CR == 13

\* char::len_utf8
len_utf8(ch) ==
  IF ch < 128 THEN 1 ELSE IF ch < 2048 THEN 2 ELSE IF ch < 65536 THEN 3 ELSE 4

\* char::is_ascii_digit
is_ascii_digit(ch) == ch \in Ord("0")..Ord("9")

\* char::is_whitespace (the Unicode White_Space property), used by str::trim_start.
is_whitespace(ch) ==
  \/ ch \in 9..13
  \/ ch \in {32, 133, 160, 5760, 8232, 8233, 8239, 8287, 12288}
  \/ ch \in 8192..8202

\* char::to_digit(16): the digit's value, or -1 for None.
to_digit16(ch) ==
  IF ch \in Ord("0")..Ord("9") THEN ch - Ord("0")
  ELSE IF ch \in Ord("a")..Ord("f") THEN ch - Ord("a") + 10
  ELSE IF ch \in Ord("A")..Ord("F") THEN ch - Ord("A") + 10
  ELSE -1

\* char::try_from(u32) succeeds unless the value is a surrogate or above U+10FFFF.
is_char(u) == u \in 0..1114111 /\ u \notin 55296..57343

(***************************************************************************)
(* Text helpers: byte offsets into a str                                   *)
(***************************************************************************)

Drop(s, n) == SubSeq(s, n + 1, Len(s))

\* The number of bytes the first k characters of s take: the sum of their
\* len_utf8, counted width by width.
byte_len(s, k) ==
  LET wider(w) == Cardinality({i \in 1..k : len_utf8(s[i]) >= w})
  IN wider(1) + wider(2) + wider(3) + wider(4)

\* The number of characters that make up the first n bytes of s. Slicing a
\* str at an offset that is not a character boundary panics; the decoder only
\* slices at offsets it summed from len_utf8, so there is such a number.
char_index(s, n) ==
  IF n = 0 THEN 0 ELSE CHOOSE k \in 1..Len(s) : byte_len(s, k) = n

\* &s[from..to] and &s[from..] with byte offsets.
ByteSlice(s, from, to) == SubSeq(s, char_index(s, from) + 1, char_index(s, to))
ByteDrop(s, from) == Drop(s, char_index(s, from))

\* bytes.starts_with(p)
starts_with(s, p) == Len(s) >= Len(p) /\ SubSeq(s, 1, Len(p)) = p

(***************************************************************************)
(* Errors (JsonError) and results                                          *)
(***************************************************************************)

UnexpectedEnd == [kind |-> "UnexpectedEnd", arg |-> -1]
InvalidUnicodeEscapeSequence == [kind |-> "InvalidUnicodeEscapeSequence", arg |-> -1]
UnexpectedUnicodeEscapeSequence(u) == [kind |-> "UnexpectedUnicodeEscapeSequence", arg |-> u]
UnexpectedToken(ch) == [kind |-> "UnexpectedToken", arg |-> ch]
ParseFloatError == [kind |-> "ParseFloatError", arg |-> -1]
ParseIntError == [kind |-> "ParseIntError", arg |-> -1]
Custom == [kind |-> "Custom", arg |-> -1]
NaN == [kind |-> "NaN", arg |-> -1]

Err(e) == [ok |-> FALSE, err |-> e]
\* A decode step that succeeded with value v and left the cursor at rest.
Ok(v, rest) == [ok |-> TRUE, val |-> v, rest |-> rest]

(***************************************************************************)
(* Deserializer: cursor primitives (s is Deserializer.0)                   *)
(***************************************************************************)

\* The ? operator: an Err is returned at once, an Ok goes on with F.
Try(r, F(_)) == IF r.ok THEN F(r) ELSE r

\* Deserializer::trim_start: self.0 = self.0.trim_start()
RECURSIVE trim_start(_)
trim_start(s) ==
  IF s # <<>> /\ is_whitespace(Head(s)) THEN trim_start(Tail(s)) ELSE s

\* Deserializer::peek_char: the first character, cursor unchanged.
peek_char(s) == IF s = <<>> THEN Err(UnexpectedEnd) ELSE Ok(Head(s), s)

\* Deserializer::next_char: the first character, cursor moved past it.
next_char(s) ==
  Try(peek_char(s), LAMBDA ch : Ok(ch.val, ByteDrop(s, len_utf8(ch.val))))

\* Deserializer::assert_next_char: consumes rhs or fails with the character found.
assert_next_char(s, rhs) ==
  Try(peek_char(s), LAMBDA ch :
    IF ch.val # rhs THEN Err(UnexpectedToken(ch.val))
    ELSE Ok(rhs, ByteDrop(s, len_utf8(ch.val))))

\* The loop "for c in chs.by_ref().take(4)" of parse_escape: s is the whole
\* input, i the number of characters chs has yielded, n the characters left to
\* take, ch the accumulated value. Yields the value and the new i.
RECURSIVE take_hex(_, _, _, _)
take_hex(s, i, n, ch) ==
  IF n = 0 \/ i >= Len(s) THEN [ok |-> TRUE, ch |-> ch, i |-> i]
  ELSE IF to_digit16(s[i + 1]) < 0 THEN Err(InvalidUnicodeEscapeSequence)
  ELSE take_hex(s, i + 1, n - 1, ch * 16 + to_digit16(s[i + 1]))

\* One arm of parse_escape's match on a one-character escape, then
\* "*at += 1; buf.push(ch)": i counts the characters chs has yielded.
Escaped(ch, i, buf, at) == [ok |-> TRUE, i |-> i, buf |-> Append(buf, ch), at |-> at + 1]

\* parse_escape without the "*at += 4" of its \u arm.
parse_escape_short(s, i, buf, at) ==
  IF i >= Len(s) THEN Err(UnexpectedEnd)
  ELSE IF s[i + 1] \in {Ord("\""), Ord("\\"), Ord("/")} THEN Escaped(s[i + 1], i + 1, buf, at)
  ELSE IF s[i + 1] = Ord("b") THEN Escaped(BS, i + 1, buf, at)
  ELSE IF s[i + 1] = Ord("f") THEN Escaped(FF, i + 1, buf, at)
  ELSE IF s[i + 1] = Ord("n") THEN Escaped(LF, i + 1, buf, at)
  ELSE IF s[i + 1] = Ord("r") THEN Escaped(CR, i + 1, buf, at)
  ELSE IF s[i + 1] = Ord("t") THEN Escaped(TAB, i + 1, buf, at)
  ELSE IF s[i + 1] = Ord("u")
    THEN Try(take_hex(s, i + 1, 4, 0), LAMBDA h :
           IF ~is_char(h.ch) THEN Err(UnexpectedUnicodeEscapeSequence(h.ch))
           ELSE Escaped(h.ch, h.i, buf, at))
  ELSE Err(UnexpectedToken(s[i + 1]))

\* parse_escape(chs, buf, at): the character after a backslash. The result
\* carries the new i, buf and at.
parse_escape(s, i, buf, at) ==
  IF i >= Len(s) THEN Err(UnexpectedEnd)
  ELSE IF s[i + 1] \in {Ord("\""), Ord("\\"), Ord("/")} THEN Escaped(s[i + 1], i + 1, buf, at)
  ELSE IF s[i + 1] = Ord("b") THEN Escaped(BS, i + 1, buf, at)
  ELSE IF s[i + 1] = Ord("f") THEN Escaped(FF, i + 1, buf, at)
  ELSE IF s[i + 1] = Ord("n") THEN Escaped(LF, i + 1, buf, at)
  ELSE IF s[i + 1] = Ord("r") THEN Escaped(CR, i + 1, buf, at)
  ELSE IF s[i + 1] = Ord("t") THEN Escaped(TAB, i + 1, buf, at)
  ELSE IF s[i + 1] = Ord("u")
    THEN Try(take_hex(s, i + 1, 4, 0), LAMBDA h :
           IF ~is_char(h.ch) THEN Err(UnexpectedUnicodeEscapeSequence(h.ch))
           ELSE Escaped(h.ch, h.i, buf, at + 4))
  ELSE Err(UnexpectedToken(s[i + 1]))

\* The characters of s from the one after the i-th up to the next backslash
\* or quote: the iterations of parse_string's loop that only do
\* "at += ch_len" and "s.push(ch)", taken one after the other.
plain_run(s, i) ==
  SubSeq(s, i + 1, CHOOSE k \in i..Len(s) :
                     /\ \A j \in (i + 1)..k : s[j] \notin {Ord("\\"), Ord("\"")}
                     /\ k < Len(s) => s[k + 1] \in {Ord("\\"), Ord("\"")})

\* parse_string's loop with the buffer started empty at the first backslash
\* (String::new() for String::from(&self.0[1..at])).
RECURSIVE parse_string_loop_unseeded(_, _, _, _, _)
parse_string_loop_unseeded(s, i, at, owned, buf) ==
  IF i >= Len(s) THEN Err(UnexpectedEnd)
  ELSE IF s[i + 1] = Ord("\\")
    THEN Try(parse_escape(s, i + 1, buf, at + len_utf8(s[i + 1])),
             LAMBDA e : parse_string_loop_unseeded(s, e.i, e.at, TRUE, e.buf))
  ELSE IF s[i + 1] = Ord("\"")
    THEN IF owned
           THEN [ok |-> TRUE, val |-> buf, cow |-> "Owned",
                 rest |-> ByteDrop(s, at + len_utf8(s[i + 1]))]
           ELSE [ok |-> TRUE, val |-> ByteSlice(s, 1, at + len_utf8(s[i + 1]) - 1),
                 cow |-> "Borrowed", rest |-> ByteDrop(s, at + len_utf8(s[i + 1]))]
  ELSE LET next == [i |-> i + Len(plain_run(s, i)),
                    at |-> at + byte_len(plain_run(s, i), Len(plain_run(s, i))),
                    buf |-> IF owned THEN buf \o plain_run(s, i) ELSE buf]
       IN parse_string_loop_unseeded(s, next.i, next.at, owned, next.buf)

\* The loop of parse_string: i counts the characters chs has yielded, at is the
\* byte offset, owned tells whether buf is Some, buf is the accumulated String.
\* Ends at the closing quote with the Cow and the cursor &self.0[at..].
RECURSIVE parse_string_loop(_, _, _, _, _)
parse_string_loop(s, i, at, owned, buf) ==
  IF i >= Len(s) THEN Err(UnexpectedEnd)
  ELSE IF s[i + 1] = Ord("\\")
    THEN Try(parse_escape(s, i + 1, IF owned THEN buf ELSE ByteSlice(s, 1, at),
                          at + len_utf8(s[i + 1])),
             LAMBDA e : parse_string_loop(s, e.i, e.at, TRUE, e.buf))
  ELSE IF s[i + 1] = Ord("\"")
    THEN IF owned
           THEN [ok |-> TRUE, val |-> buf, cow |-> "Owned",
                 rest |-> ByteDrop(s, at + len_utf8(s[i + 1]))]
           ELSE [ok |-> TRUE, val |-> ByteSlice(s, 1, at + len_utf8(s[i + 1]) - 1),
                 cow |-> "Borrowed", rest |-> ByteDrop(s, at + len_utf8(s[i + 1]))]
  ELSE LET next == [i |-> i + Len(plain_run(s, i)),
                    at |-> at + byte_len(plain_run(s, i), Len(plain_run(s, i))),
                    buf |-> IF owned THEN buf \o plain_run(s, i) ELSE buf]
       IN parse_string_loop(s, next.i, next.at, owned, next.buf)

\* Deserializer::parse_string
parse_string(s) ==
  IF s = <<>> THEN Err(UnexpectedEnd)
  ELSE IF Head(s) # Ord("\"") THEN Err(UnexpectedToken(Head(s)))
  ELSE parse_string_loop(s, 1, 1, FALSE, <<>>)

\* The literals parse_bool tries, in its order.
bool_vals == << Lit(<<"1">>), Lit(<<"0">>), Lit(<<"t", "r", "u", "e">>),
                Lit(<<"f", "a", "l", "s", "e">>) >>

\* The index (from 0) of the first literal of vals that s starts with, or
\* Len(vals) when there is none: the loop of parse_bool.
RECURSIVE first_match(_, _)
first_match(s, count) ==
  IF count >= Len(bool_vals) \/ starts_with(s, bool_vals[count + 1]) THEN count
  ELSE first_match(s, count + 1)

\* parse_bool with the parity test turned round (count & 1 == 1).
bool_at_odd(s, count) ==
  IF count < Len(bool_vals) THEN Ok(count % 2 = 1, Drop(s, Len(bool_vals[count + 1])))
  ELSE Try(peek_char(s), LAMBDA ch : Err(UnexpectedToken(ch.val)))

\* What parse_bool returns for the index count the loop ended at.
bool_at(s, count) ==
  IF count < Len(bool_vals) THEN Ok(count % 2 = 0, Drop(s, Len(bool_vals[count + 1])))
  ELSE Try(peek_char(s), LAMBDA ch : Err(UnexpectedToken(ch.val)))

\* Deserializer::parse_bool
parse_bool(s) == bool_at(s, first_match(s, 0))

(***************************************************************************)
(* Integers. A value of an integer type is a sign and a magnitude written  *)
(* as decimal digits, most significant first, without leading zeros, so    *)
(* that every width up to 128 bits is exact.                               *)
(***************************************************************************)

IntTypes == {"i8", "i16", "i32", "i64", "i128", "u8", "u16", "u32", "u64", "u128"}
is_signed_ty(t) == t \in {"i8", "i16", "i32", "i64", "i128"}
\* The widths the codec writes as a quoted decimal (serialize_i64, _u64, _i128, _u128).
is_quoted_ty(t) == t \in {"i64", "u64", "i128", "u128"}

\* T::MAX
IntMaxMag(t) ==
  CASE t = "i8" -> <<1, 2, 7>>
    [] t = "i16" -> <<3, 2, 7, 6, 7>>
    [] t = "i32" -> <<2, 1, 4, 7, 4, 8, 3, 6, 4, 7>>
    [] t = "i64" -> <<9, 2, 2, 3, 3, 7, 2, 0, 3, 6, 8, 5, 4, 7, 7, 5, 8, 0, 7>>
    [] t = "i128" -> <<1, 7, 0, 1, 4, 1, 1, 8, 3, 4, 6, 0, 4, 6, 9, 2, 3, 1, 7, 3,
                       1, 6, 8, 7, 3, 0, 3, 7, 1, 5, 8, 8, 4, 1, 0, 5, 7, 2, 7>>
    [] t = "u8" -> <<2, 5, 5>>
    [] t = "u16" -> <<6, 5, 5, 3, 5>>
    [] t = "u32" -> <<4, 2, 9, 4, 9, 6, 7, 2, 9, 5>>
    [] t = "u64" -> <<1, 8, 4, 4, 6, 7, 4, 4, 0, 7, 3, 7, 0, 9, 5, 5, 1, 6, 1, 5>>
    [] t = "u128" -> <<3, 4, 0, 2, 8, 2, 3, 6, 6, 9, 2, 0, 9, 3, 8, 4, 6, 3, 4, 6,
                       3, 3, 7, 4, 6, 0, 7, 4, 3, 1, 7, 6, 8, 2, 1, 1, 4, 5, 5>>

\* The magnitude of T::MIN: one more than T::MAX for a signed type, 0 otherwise.
IntMinMag(t) ==
  CASE t = "i8" -> <<1, 2, 8>>
    [] t = "i16" -> <<3, 2, 7, 6, 8>>
    [] t = "i32" -> <<2, 1, 4, 7, 4, 8, 3, 6, 4, 8>>
    [] t = "i64" -> <<9, 2, 2, 3, 3, 7, 2, 0, 3, 6, 8, 5, 4, 7, 7, 5, 8, 0, 8>>
    [] t = "i128" -> <<1, 7, 0, 1, 4, 1, 1, 8, 3, 4, 6, 0, 4, 6, 9, 2, 3, 1, 7, 3,
                       1, 6, 8, 7, 3, 0, 3, 7, 1, 5, 8, 8, 4, 1, 0, 5, 7, 2, 8>>
    [] OTHER -> <<0>>

\* a < b for magnitudes without leading zeros.
lex_less(a, b) ==
  \E i \in 1..Len(a) : a[i] < b[i] /\ \A j \in 1..(i - 1) : a[j] = b[j]
mag_less(a, b) == Len(a) < Len(b) \/ (Len(a) = Len(b) /\ lex_less(a, b))

\* Leading zeros removed; zero is <<0>>.
strip_zeros(m) ==
  IF Len(m) <= 1 THEN m
  ELSE IF \A i \in 1..Len(m) : m[i] = 0 THEN <<0>>
  ELSE SubSeq(m, CHOOSE i \in 1..Len(m) : m[i] # 0 /\ \A j \in 1..(i - 1) : m[j] = 0, Len(m))

IntVal(t, neg, mag) == [k |-> "int", t |-> t, neg |-> neg, mag |-> mag]

\* v.to_string() of an integer (core::fmt::Display): an optional '-' and the digits.
int_to_string(v) ==
  (IF v.neg THEN <<Ord("-")>> ELSE <<>>) \o [i \in 1..Len(v.mag) |-> Ord("0") + v.mag[i]]

\* T::from_str(src) of an integer type (core::num, radix 10): an empty text, a
\* lone sign, a non-digit, a '-' for an unsigned type and a value out of the
\* type's range all fail with ParseIntError.
int_from_str(t, src) ==
  IF src = <<>> THEN Err(ParseIntError)
  ELSE
    LET sign == Head(src) \in {Ord("+"), Ord("-")}
        digits == IF Head(src) = Ord("+") \/ (Head(src) = Ord("-") /\ is_signed_ty(t))
                    THEN Tail(src) ELSE src
        neg == Head(src) = Ord("-") /\ is_signed_ty(t)
    IN
    IF sign /\ Len(src) = 1 THEN Err(ParseIntError)
    ELSE IF \E i \in 1..Len(digits) : ~is_ascii_digit(digits[i]) THEN Err(ParseIntError)
    ELSE
      LET mag == strip_zeros([i \in 1..Len(digits) |-> digits[i] - Ord("0")]) IN
      IF neg /\ mag_less(IntMinMag(t), mag) THEN Err(ParseIntError)
      ELSE IF ~neg /\ mag_less(IntMaxMag(t), mag) THEN Err(ParseIntError)
      ELSE [ok |-> TRUE, val |-> IntVal(t, neg /\ mag # <<0>>, mag)]

\* The length of the longest prefix of s made of characters in the run class:
\* the loops of parse_unsigned, parse_signed and parse_float, which add
\* ch.len_utf8() (1 for every character they accept) to offset.
run_offset(s, extra) ==
  LET run(ch) == is_ascii_digit(ch) \/ ch \in extra
  IN byte_len(s, CHOOSE k \in 0..Len(s) :
                   /\ \A i \in 1..k : run(s[i])
                   /\ k < Len(s) => ~run(s[k + 1]))

\* Deserializer::parse_unsigned::<T>
parse_unsigned(t, s) ==
  Try(int_from_str(t, ByteSlice(s, 0, run_offset(s, {}))),
      LAMBDA val : Ok(val.val, ByteDrop(s, run_offset(s, {}))))

\* parse_signed with the loop of parse_unsigned: a '-' ends the run.
parse_signed_digits(t, s) ==
  Try(int_from_str(t, ByteSlice(s, 0, run_offset(s, {}))),
      LAMBDA val : Ok(val.val, ByteDrop(s, run_offset(s, {}))))

\* Deserializer::parse_signed::<T>
parse_signed(t, s) ==
  Try(int_from_str(t, ByteSlice(s, 0, run_offset(s, {Ord("-")}))),
      LAMBDA val : Ok(val.val, ByteDrop(s, run_offset(s, {Ord("-")}))))

(***************************************************************************)
(* Floats. A finite value is a sign, integer digits and fraction digits    *)
(* (canonical: no leading zeros, no trailing fraction zeros): the decimal  *)
(* that {} prints for the float. For a NaN or an infinity, ip holds the    *)
(* significand of the bit pattern (the fraction bits with the implicit one *)
(* before them) as a whole number, and fp is empty.                        *)
(***************************************************************************)

FloatTypes == {"f32", "f64"}
FloatVal(t, cls, neg, ip, fp) ==
  [k |-> "float", t |-> t, cls |-> cls, neg |-> neg, ip |-> ip, fp |-> fp]
is_finite(v) == v.cls = "finite"
is_nan(v) == v.cls = "nan"

\* Trailing zeros removed.
strip_trailing(m) ==
  SubSeq(m, 1, CHOOSE k \in 0..Len(m) :
                 /\ k > 0 => m[k] # 0
                 /\ \A i \in (k + 1)..Len(m) : m[i] = 0)

\* Decimals of any size, for the arithmetic of T::from_str: d holds the
\* digits, the most significant first, the last k of them after the point.
\* There is at least one digit before the point; dec_trim leaves no zero
\* at the front beyond that one and none at the end after the point, so that
\* zero is the one digit 0.
Zeros(n) == [i \in 1..n |-> 0]
dec_trim(d, k) ==
  LET front == CHOOSE j \in 0..(Len(d) - k - 1) :
                 /\ \A i \in 1..j : d[i] = 0
                 /\ j < Len(d) - k - 1 => d[j + 1] # 0
      back == CHOOSE j \in 0..k :
                /\ \A i \in (Len(d) - j + 1)..Len(d) : d[i] = 0
                /\ j < k => d[Len(d) - j] # 0
  IN [d |-> SubSeq(d, front + 1, Len(d) - back), k |-> k - back]

\* x * 2^n for n in 1..9 and x / 2^(-n) for n in -9..-1, in one pass over the
\* digits: x is multiplied by c = 2^n, or by c = 5^(-n) with the point moved
\* -n places. A digit of the product is c times the digit plus what the
\* digits after it carry over, and that carry is the whole part of c times
\* 0.(the nine digits after it), as c divides 10^9. xd is the digits of x
\* with as many zeros before them as the product may be longer by, and nine
\* after them.
dec_shift(x, n) ==
  LET c == IF n > 0 THEN 2 ^ n ELSE 5 ^ (0 - n)
      pad == IF n > 0 THEN n ELSE 0 - n
      xd == Zeros(pad) \o x.d \o Zeros(9)
  IN dec_trim([j \in 1..(Len(x.d) + pad) |->
                 (c * xd[j]
                  + ((((xd[j + 1] * 100000000 + xd[j + 2] * 10000000)
                       + (xd[j + 3] * 1000000 + xd[j + 4] * 100000))
                      + ((xd[j + 5] * 10000 + xd[j + 6] * 1000)
                         + (xd[j + 7] * 100 + (xd[j + 8] * 10 + xd[j + 9]))))
                     \div (1000000000 \div c))) % 10],
              IF n > 0 THEN x.k ELSE x.k + pad)

\* x * 2^n, n of either sign: the count of doublings or halvings is split in
\* two until dec_shift takes it.
RECURSIVE dec_scale(_, _)
dec_scale(x, n) ==
  CASE n = 0 -> x
    [] x.d = <<0>> -> x
    [] n > 9 \/ n < -9 -> dec_scale(dec_scale(x, n \div 2), n - n \div 2)
    [] OTHER -> dec_shift(x, n)

\* The whole number after and before the one the digits d write (d keeps its
\* length unless it is all nines).
dec_succ(d) ==
  IF \A i \in 1..Len(d) : d[i] = 9 THEN <<1>> \o Zeros(Len(d))
  ELSE LET j == CHOOSE j \in 1..Len(d) : d[j] # 9 /\ \A i \in (j + 1)..Len(d) : d[i] = 9
       IN [i \in 1..Len(d) |-> IF i < j THEN d[i] ELSE IF i = j THEN d[i] + 1 ELSE 0]
dec_pred(d) ==
  LET j == CHOOSE j \in 1..Len(d) : d[j] # 0 /\ \A i \in (j + 1)..Len(d) : d[i] = 0
  IN [i \in 1..Len(d) |-> IF i < j THEN d[i] ELSE IF i = j THEN d[i] - 1 ELSE 9]

\* The format of a float type: the bits of the significand (the implicit one
\* counted), the largest and the smallest binary exponent, and the digits of
\* the smallest significand of a normal float, 2^(digits - 1), of twice
\* that, 2^digits, and of the significand of the quiet NaN core::f32::NAN
\* (only the first fraction bit set), 3 * 2^(digits - 2).
float_format(t) ==
  IF t = "f32"
    THEN [digits |-> 24, max_exp |-> 127, min_exp |-> -126,
          one |-> <<8, 3, 8, 8, 6, 0, 8>>, two |-> <<1, 6, 7, 7, 7, 2, 1, 6>>,
          nan |-> <<1, 2, 5, 8, 2, 9, 1, 2>>]
  ELSE [digits |-> 53, max_exp |-> 1023, min_exp |-> -1022,
        one |-> <<4, 5, 0, 3, 5, 9, 9, 6, 2, 7, 3, 7, 0, 4, 9, 6>>,
        two |-> <<9, 0, 0, 7, 1, 9, 9, 2, 5, 4, 7, 4, 0, 9, 9, 2>>,
        nan |-> <<6, 7, 5, 5, 3, 9, 9, 4, 4, 1, 0, 5, 5, 7, 4, 4>>]

\* T::from(core::f32::NAN): the sign bit clear, the first fraction bit set;
\* the conversion to f64 keeps both.
FloatNaN(t) == FloatVal(t, "nan", FALSE, float_format(t).nan, <<>>)
\* The infinity T::from_str returns for a decimal too large for T: no
\* fraction bit set.
FloatInf(t, neg) == FloatVal(t, "inf", neg, float_format(t).one, <<>>)

\* The float of type t nearest to y * 2^(e - bits + 1), where y has bits bits
\* before the point: y rounded to a whole number m, at a tie to the even one.
\* The result is the class of the float and, when finite, m (as digits) and
\* the q of m * 2^q. Rounding up may reach 2^digits, the next power of two,
\* or an infinity.
float_round(t, e, bits, y) ==
  LET f == float_format(t)
      whole == SubSeq(y.d, 1, Len(y.d) - y.k)
      up == \/ y.d[Len(y.d) - y.k + 1] > 5
            \/ y.d[Len(y.d) - y.k + 1] = 5 /\ (y.k > 1 \/ y.d[Len(y.d) - y.k] % 2 = 1)
  IN CASE y.k = 0 \/ ~up ->
            IF whole = <<0>> THEN [cls |-> "zero"]
            ELSE [cls |-> "finite", m |-> whole, q |-> e - bits + 1]
       [] bits < f.digits \/ dec_succ(whole) # f.two ->
            [cls |-> "finite", m |-> dec_succ(whole), q |-> e - bits + 1]
       [] e = f.max_exp -> [cls |-> "inf"]
       [] OTHER -> [cls |-> "finite", m |-> f.one, q |-> e - bits + 2]

\* The float of type t nearest to the decimal x, which lies in
\* [2^est, 2^(est + 5)); first is the whole part of x / 2^est, so x / 2^e lies
\* in [1, 2). A float below the smallest normal one has fewer bits; one past
\* the largest is an infinity.
float_binade(t, x, est, first) ==
  LET f == float_format(t)
      small == IF Len(first) = 1 THEN first[1] ELSE 10 * first[1] + first[2]
      e == est + (CHOOSE j \in 0..5 : 2 ^ j <= small /\ small < 2 ^ (j + 1))
      bits == IF e >= f.min_exp THEN f.digits ELSE f.digits - (f.min_exp - e)
  IN CASE e > f.max_exp -> [cls |-> "inf"]
       [] bits < 0 -> [cls |-> "zero"]
       [] OTHER -> float_round(t, e, bits, dec_scale(x, bits - 1 - e))

\* The float of type t nearest to the decimal x, at a tie the one with the
\* even significand: zero when x is too small, an infinity when it is too
\* large. x lies in [10^ten, 10^(ten + 1)), so in [2^est, 2^(est + 5)), as
\* 2^3.321 < 10 < 2^3.322.
float_nearest(t, x) ==
  LET f == float_format(t)
      ten == IF x.d[1] # 0 THEN Len(x.d) - x.k - 1
             ELSE 1 - (CHOOSE j \in 2..Len(x.d) : x.d[j] # 0 /\ \A i \in 2..(j - 1) : x.d[i] = 0)
      est == IF ten >= 0 THEN (ten * 3321) \div 1000
             ELSE 0 - (((0 - ten) * 3322 + 999) \div 1000)
      whole(z) == SubSeq(z.d, 1, Len(z.d) - z.k)
  IN CASE x.d = <<0>> -> [cls |-> "zero"]
       [] est > f.max_exp -> [cls |-> "inf"]
       [] est + 5 < f.min_exp - f.digits -> [cls |-> "zero"]
       [] OTHER -> float_binade(t, x, est, whole(dec_scale(x, 0 - est)))

\* The digits that name a float: lo, v and hi are the digits, of one length
\* and with s of them after the point, of the float's lower limit, of the
\* float and of its upper limit (the limits are inside when inner). The
\* shortest decimal between the limits has the digits lo and hi share and one
\* more; it is the one of them nearest to the float, at a tie the upper one
\* (core::fmt) or, when even_ties, the even one (ryu).
\* The result is the digits and the power of ten: digits * 10^exp.
float_pick(inner, even_ties, s, lo, v, hi) ==
  LET cut == CHOOSE c \in 1..Len(hi) :
               /\ \A i \in 1..(c - 1) : lo[i] = hi[i]
               /\ c < Len(hi) => lo[c] # hi[c]
      lo_exact == \A i \in (cut + 1)..Len(lo) : lo[i] = 0
      keep == IF inner /\ lo_exact
                THEN CHOOSE j \in 1..cut : (\A i \in (j + 1)..cut : lo[i] = 0) /\ (j > 1 => lo[j] # 0)
              ELSE cut
      next == IF keep < Len(v) THEN v[keep + 1] ELSE 0
      tie_down == /\ even_ties
                  /\ next = 5
                  /\ \A i \in (keep + 2)..Len(v) : v[i] = 0
                  /\ v[keep] % 2 = 0
      up == \/ (SubSeq(v, 1, keep) = SubSeq(lo, 1, keep) /\ ~(inner /\ lo_exact))
            \/ (next >= 5 /\ ~tie_down)
  IN [digits |-> IF up THEN dec_succ(SubSeq(v, 1, keep)) ELSE SubSeq(v, 1, keep),
      exp |-> (Len(v) - keep) - s]

\* The digits of below, mid and above written with s after the point and to
\* one length. The upper limit is above itself when it is inside, the
\* decimal before it otherwise.
float_digits(inner, even_ties, s, below, mid, above) ==
  LET hi == IF inner THEN above.d \o Zeros(s - above.k)
            ELSE dec_pred(above.d \o Zeros(s - above.k))
  IN float_pick(inner, even_ties, s,
                Zeros(Len(hi) - Len(below.d) - (s - below.k)) \o below.d \o Zeros(s - below.k),
                Zeros(Len(hi) - Len(mid.d) - (s - mid.k)) \o mid.d \o Zeros(s - mid.k),
                hi)

\* below, mid and above are a float and the halfway points to its neighbours:
\* their digits are written with as many after the point as the one with the
\* most has.
float_interval(inner, even_ties, below, mid, above) ==
  IF below.k >= mid.k /\ below.k >= above.k
    THEN float_digits(inner, even_ties, below.k, below, mid, above)
  ELSE float_digits(inner, even_ties, IF mid.k >= above.k THEN mid.k ELSE above.k,
                    below, mid, above)

\* The decimal that names the float m * 2^q of type t: the shortest one that
\* T::from_str reads back as this float, the nearest to it among those; at a
\* tie {} prints the upper one and ryu (even_ties) the even one. The halfway
\* points to the neighbours, (2m - 1) * 2^(q - 1) and (2m + 1) * 2^(q - 1),
\* belong to the float when m is even; the float below a power of two is
\* half as far as the one above, which makes the lower point
\* (4m - 1) * 2^(q - 2).
float_shortest(t, m, q, even_ties) ==
  LET f == float_format(t)
      closer == IF m = f.one /\ q > f.min_exp - f.digits + 1 THEN 2 ELSE 1
  IN float_interval(m[Len(m)] % 2 = 0, even_ties,
       dec_scale(dec_trim(dec_pred(dec_scale([d |-> m, k |-> 0], closer).d), 0), q - closer),
       dec_scale([d |-> m, k |-> 0], q),
       dec_scale([d |-> dec_succ(dec_scale([d |-> m, k |-> 0], 1).d), k |-> 0], q - 1))

\* The float value of type t whose decimal is dec.digits * 10^dec.exp, with
\* the digits before and after the point.
float_decimal(t, neg, dec) ==
  IF dec.exp >= 0
    THEN FloatVal(t, "finite", neg, strip_zeros(dec.digits \o Zeros(dec.exp)), <<>>)
  ELSE LET d == Zeros((1 - dec.exp) - Len(dec.digits)) \o dec.digits
       IN FloatVal(t, "finite", neg, strip_zeros(SubSeq(d, 1, Len(d) + dec.exp)),
                   strip_trailing(SubSeq(d, Len(d) + dec.exp + 1, Len(d))))

\* The value of the float near of type t: a zero and an infinity keep the
\* sign. The digits are those {} prints.
float_value(t, neg, near) ==
  CASE near.cls = "zero" -> float_decimal(t, neg, [digits |-> <<0>>, exp |-> 0])
    [] near.cls = "inf" -> FloatInf(t, neg)
    [] OTHER -> float_decimal(t, neg, float_shortest(t, near.m, near.q, FALSE))

\* T::from_str(src) of a float type on a text of digits, '-' and '.' (all that
\* parse_float passes): an optional '-', digits with at most one '.', and at
\* least one digit; anything else fails with ParseFloatError. The value is
\* the float nearest to the decimal.
float_from_str(t, src) ==
  LET neg == src # <<>> /\ Head(src) = Ord("-")
      body == IF neg THEN Tail(src) ELSE src
      dots == {i \in 1..Len(body) : body[i] = Ord(".")}
      dot == IF dots = {} THEN Len(body) + 1 ELSE CHOOSE i \in dots : TRUE
      ip == SubSeq(body, 1, dot - 1)
      fp == SubSeq(body, dot + 1, Len(body))
  IN
  IF \/ Cardinality(dots) > 1
     \/ \E i \in 1..Len(body) : ~(is_ascii_digit(body[i]) \/ body[i] = Ord("."))
     \/ Len(ip) + Len(fp) = 0
    THEN Err(ParseFloatError)
  ELSE [ok |-> TRUE,
        val |-> float_value(t, neg,
                  float_nearest(t,
                    dec_trim([i \in 1..(1 + Len(ip) + Len(fp)) |->
                                IF i = 1 THEN 0
                                ELSE IF i <= 1 + Len(ip) THEN ip[i - 1] - Ord("0")
                                ELSE fp[i - 1 - Len(ip)] - Ord("0")], Len(fp))))]

\* The text ryu writes for the decimal dec.digits * 10^dec.exp of a float of
\* type t: the digits n without zeros at either end, k the power of ten
\* that goes with them, and kk the count of digits before the point. A
\* number with at most 16 (f32: 13) digits before the point is written in
\* full with at least one digit after the point, a smaller one with up to 4
\* (f32: 5) zeros after the point as well, and any other with one digit
\* before the point and the power of ten after an e.
ryu_pretty(t, neg, dec) ==
  LET d == strip_zeros(dec.digits)
      n == strip_trailing(d)
      k == dec.exp + (Len(d) - Len(n))
      kk == Len(n) + k
      plain == IF t = "f32" THEN 13 ELSE 16
      small == IF t = "f32" THEN -6 ELSE -5
      chars(w) == [i \in 1..Len(w) |-> Ord("0") + w[i]]
      e == IF kk >= 1 THEN kk - 1 ELSE 1 - kk
      exponent == Lit(<<"e">>)
                  \o (IF kk >= 1 THEN <<>> ELSE Lit(<<"-">>))
                  \o chars(IF e >= 100 THEN <<e \div 100, (e \div 10) % 10, e % 10>>
                           ELSE IF e >= 10 THEN <<e \div 10, e % 10>>
                           ELSE <<e>>)
  IN (IF neg THEN Lit(<<"-">>) ELSE <<>>)
     \o (CASE 0 <= k /\ kk <= plain -> chars(n \o Zeros(k)) \o Lit(<<".", "0">>)
           [] 0 < kk /\ kk <= plain ->
                chars(SubSeq(n, 1, kk)) \o Lit(<<".">>) \o chars(SubSeq(n, kk + 1, Len(n)))
           [] small < kk /\ kk <= 0 -> Lit(<<"0", ".">>) \o chars(Zeros(0 - kk) \o n)
           [] Len(n) = 1 -> chars(n) \o exponent
           [] OTHER -> chars(<<n[1]>>) \o Lit(<<".">>) \o chars(Tail(n)) \o exponent)

\* The text ryu writes for the bits near: 0.0 with the sign for a zero, and
\* otherwise the shortest decimal that names m * 2^q, the even one at a tie.
ryu_format(t, neg, near) ==
  IF near.cls = "zero"
    THEN (IF neg THEN Lit(<<"-">>) ELSE <<>>) \o Lit(<<"0", ".", "0">>)
  ELSE ryu_pretty(t, neg, float_shortest(t, near.m, near.q, TRUE))

\* ryu::Buffer::format_finite. It does not look at the class of its
\* argument: the bits of a NaN or an infinity are read as those of a float
\* one binade above the largest finite ones, the significand times
\* 2^(max_exp + 1 - (digits - 1)).
format_finite(v) ==
  ryu_format(v.t, v.neg,
             IF is_finite(v)
               THEN float_nearest(v.t, dec_trim(<<0>> \o v.ip \o v.fp, Len(v.fp)))
             ELSE [cls |-> v.cls, m |-> v.ip,
                   q |-> float_format(v.t).max_exp - float_format(v.t).digits + 2])

\* Deserializer::parse_float::<T>: on "null" the NaN is returned with the cursor
\* where it was.
parse_float(t, s) ==
  IF starts_with(s, Lit(<<"n", "u", "l", "l">>)) THEN Ok(FloatNaN(t), s)
  ELSE Try(float_from_str(t, ByteSlice(s, 0, run_offset(s, {Ord("-"), Ord(".")}))),
           LAMBDA val : Ok(val.val, ByteDrop(s, run_offset(s, {Ord("-"), Ord(".")}))))

(***************************************************************************)
(* The data model: target types and values.                                *)
(* A type says which Deserialize impl drives the decoder; a value says     *)
(* which Serialize impl drives the encoder.                                *)
(***************************************************************************)

TBool == [k |-> "bool"]
TUnit == [k |-> "unit"]
TInt(t) == [k |-> "int", t |-> t]
TFloat(t) == [k |-> "float", t |-> t]
TString == [k |-> "string"]
TOption(of) == [k |-> "option", of |-> of]
\* Vec<of>
TSeq(of) == [k |-> "seq", of |-> of]
\* (elems[1], elems[2], ...)
TTuple(elems) == [k |-> "tuple", elems |-> elems]
\* #[derive] struct: fields is a sequence of [name, ty].
TStruct(fields) == [k |-> "struct", fields |-> fields]
\* BTreeMap<key, val> with an integer key type.
TMap(key, val) == [k |-> "map", key |-> key, val |-> val]
\* #[derive] enum: variants is a sequence of [name, shape, ty], shape one of
\* "unit", "newtype", "tuple", "struct" and ty the payload's type.
TEnum(variants) == [k |-> "enum", variants |-> variants]
\* The seeds serde's derived code passes for a field or variant name and for
\* a value it skips (serde::de::IgnoredAny).
TIdentifier == [k |-> "identifier"]
TIgnored == [k |-> "ignored"]
\* A self-describing target, one whose visitor takes whatever deserialize_any finds.
TAny == [k |-> "any"]

BoolVal(b) == [k |-> "bool", b |-> b]
UnitVal == [k |-> "unit"]
StrVal(s) == [k |-> "str", s |-> s]
NoneVal == [k |-> "option", some |-> FALSE]
SomeVal(v) == [k |-> "option", some |-> TRUE, inner |-> v]
SeqVal(items) == [k |-> "seq", items |-> items]
\* fields is a sequence of [name, val] in declaration order.
StructVal(fields) == [k |-> "struct", fields |-> fields]
\* entries is a sequence of <<key, value>>: in key order for a BTreeMap, in the
\* order of the text for a self-describing target.
MapVal(entries) == [k |-> "map", entries |-> entries]
EnumVal(tag, shape, payload) ==
  [k |-> "enum", tag |-> tag, shape |-> shape, payload |-> payload]
IgnoredVal == [k |-> "ignored"]

\* a < b for two values of one integer type.
int_less(a, b) ==
  IF a.neg # b.neg THEN a.neg
  ELSE IF a.neg THEN mag_less(b.mag, a.mag) ELSE mag_less(a.mag, b.mag)

\* BTreeMap::insert: the entry replaces one with an equal key, or goes in key order.
RECURSIVE map_insert(_, _, _)
map_insert(entries, key, val) ==
  IF entries = <<>> THEN << <<key, val>> >>
  ELSE IF Head(entries)[1] = key THEN << <<key, val>> >> \o Tail(entries)
  ELSE IF int_less(key, Head(entries)[1]) THEN << <<key, val>> >> \o entries
  ELSE <<Head(entries)>> \o map_insert(Tail(entries), key, val)

(***************************************************************************)
(* Deserializer: impl de::Deserializer, CommaSeparated, Enum               *)
(***************************************************************************)

RECURSIVE Deserialize(_, _), vec_visit_seq(_, _, _, _), tuple_visit_seq(_, _, _, _),
          struct_visit_map(_, _, _, _), map_visit_map(_, _, _, _)

\* deserialize_bool
deserialize_bool(s) ==
  Try(parse_bool(trim_start(s)), LAMBDA r : Ok(BoolVal(r.val), r.rest))

\* deserialize_i8, _i16, _i32, _u8, _u16, _u32 read a bare literal;
\* deserialize_i64, _u64, _i128, _u128 read a quoted string and parse its content.
deserialize_int(t, s) ==
  IF is_quoted_ty(t)
    THEN Try(parse_string(trim_start(s)), LAMBDA q :
           Try(int_from_str(t, q.val), LAMBDA v : Ok(v.val, q.rest)))
  ELSE IF is_signed_ty(t) THEN parse_signed(t, trim_start(s))
  ELSE parse_unsigned(t, trim_start(s))

\* deserialize_f32, deserialize_f64
deserialize_float(t, s) == parse_float(t, trim_start(s))

\* deserialize_str, deserialize_string, deserialize_identifier: the visitor gets
\* the borrowed slice or the owned String.
deserialize_str(s) ==
  Try(parse_string(trim_start(s)), LAMBDA q : Ok(StrVal(q.val), q.rest))

\* Err(Error::UnexpectedToken(self.peek_char()?))
unexpected_peek(s) == Try(peek_char(s), LAMBDA p : Err(UnexpectedToken(p.val)))

\* deserialize_unit
deserialize_unit(s) ==
  IF starts_with(trim_start(s), Lit(<<"n", "u", "l", "l">>))
    THEN Ok(UnitVal, Drop(trim_start(s), 4))
    ELSE unexpected_peek(trim_start(s))

\* deserialize_ignored_any: visitor.visit_unit(), the cursor untouched.
deserialize_ignored_any(s) == Ok(IgnoredVal, s)

\* deserialize_option: visit_none leaves the cursor after the whitespace.
deserialize_option(ty, s) ==
  Try(peek_char(trim_start(s)), LAMBDA p :
    IF p.val = Ord("n") THEN Ok(NoneVal, p.rest)
    ELSE Try(Deserialize(ty.of, p.rest), LAMBDA r : Ok(SomeVal(r.val), r.rest)))

\* The part CommaSeparated's next_element_seed and next_key_seed share: None
\* at the closing character, else a comma unless first, else the seed.
\* Ok(None) is a result with no val; map(Some) leaves the seed's result, an
\* Ok with a val or an Err, as it is.
is_some(e) == "val" \in DOMAIN e
next_seed(seed, s, first, close) ==
  Try(peek_char(trim_start(s)), LAMBDA p :
    IF p.val = close THEN [ok |-> TRUE, rest |-> p.rest]
    ELSE Try(IF first THEN p ELSE assert_next_char(p.rest, Ord(",")), LAMBDA c :
           Deserialize(seed, c.rest)))

\* SeqAccess::next_element_seed for CommaSeparated; first is self.first.
next_element_seed(seed, s, first) == next_seed(seed, s, first, Ord("]"))

\* Vec<T>'s visitor: next_element until None.
vec_visit_seq(elem, s, first, acc) ==
  Try(next_element_seed(elem, s, first), LAMBDA e :
    IF ~is_some(e) THEN Ok(SeqVal(acc), e.rest)
    ELSE vec_visit_seq(elem, e.rest, FALSE, Append(acc, e.val)))

\* A tuple's visitor: one next_element per position, invalid_length on None,
\* and no call after the last position.
tuple_visit_seq(elems, s, first, acc) ==
  IF Len(acc) = Len(elems) THEN Ok(SeqVal(acc), s)
  ELSE Try(next_element_seed(elems[Len(acc) + 1], s, first), LAMBDA e :
         IF ~is_some(e) THEN Err(Custom)
         ELSE tuple_visit_seq(elems, e.rest, FALSE, Append(acc, e.val)))

\* deserialize_seq, deserialize_tuple, deserialize_tuple_struct: when the
\* character taken is not '[', the error carries the character after it.
deserialize_seq(ty, s) ==
  Try(next_char(trim_start(s)), LAMBDA n :
    IF n.val = Ord("[")
      THEN Try(IF ty.k = "seq" THEN vec_visit_seq(ty.of, n.rest, TRUE, <<>>)
               ELSE tuple_visit_seq(ty.elems, n.rest, TRUE, <<>>),
               LAMBDA v :
                 Try(assert_next_char(trim_start(v.rest), Ord("]")),
                     LAMBDA a : Ok(v.val, a.rest)))
      ELSE unexpected_peek(n.rest))

\* MapAccess::next_key_seed for CommaSeparated
next_key_seed(seed, s, first) == next_seed(seed, s, first, Ord("}"))

\* next_value_seed without its trim_start.
next_value_seed_untrimmed(seed, s) ==
  Try(assert_next_char(s, Ord(":")), LAMBDA c : Deserialize(seed, c.rest))

\* MapAccess::next_value_seed for CommaSeparated
next_value_seed(seed, s) ==
  Try(assert_next_char(trim_start(s), Ord(":")), LAMBDA c : Deserialize(seed, c.rest))

\* The index of the field or variant called name, 0 when there is none.
index_of(named, name) ==
  IF \E i \in 1..Len(named) : named[i].name = name
    THEN CHOOSE i \in 1..Len(named) : named[i].name = name
    ELSE 0

\* The end of a derived struct's visit_map: a field still None is
\* missing_field, which is None for an Option field.
struct_finish(fields, got, rest) ==
  IF \E i \in 1..Len(fields) : ~got[i].some /\ fields[i].ty.k # "option"
    THEN Err(Custom)
    ELSE Ok(StructVal([i \in 1..Len(fields) |->
                         [name |-> fields[i].name,
                          val |-> IF got[i].some THEN got[i].val ELSE NoneVal]]),
            rest)

\* A derived struct's visit_map; got[i] is the Option of field i. An unknown
\* key's value is read as IgnoredAny and a repeated key is duplicate_field.
struct_visit_map(fields, s, first, got) ==
  Try(next_key_seed(TIdentifier, s, first), LAMBDA key :
    IF ~is_some(key) THEN struct_finish(fields, got, key.rest)
    ELSE IF index_of(fields, key.val.s) = 0
      THEN Try(next_value_seed(TIgnored, key.rest), LAMBDA ig :
             struct_visit_map(fields, ig.rest, FALSE, got))
    ELSE IF got[index_of(fields, key.val.s)].some THEN Err(Custom)
    ELSE Try(next_value_seed(fields[index_of(fields, key.val.s)].ty, key.rest), LAMBDA v :
           struct_visit_map(fields, v.rest, FALSE,
                            [got EXCEPT ![index_of(fields, key.val.s)] =
                                          [some |-> TRUE, val |-> v.val]])))

\* A map visitor: next_entry (a key, then its value) until None. BTreeMap<K, V>
\* inserts each entry; a self-describing target keeps the entries as they
\* come, in the order of the text.
map_visit_map(ty, s, first, acc) ==
  Try(next_key_seed(ty.key, s, first), LAMBDA key :
    IF ~is_some(key) THEN Ok(MapVal(acc), key.rest)
    ELSE Try(next_value_seed(ty.val, key.rest), LAMBDA v :
           map_visit_map(ty, v.rest, FALSE,
                         IF ty.key.k = "any" THEN Append(acc, <<key.val, v.val>>)
                         ELSE map_insert(acc, key.val, v.val))))

\* "let end = self.next_char()?" and the test for the closing brace, which
\* end deserialize_map and deserialize_enum.
closing_brace(val, s) ==
  Try(next_char(trim_start(s)), LAMBDA end :
    IF end.val = Ord("}") THEN Ok(val, end.rest) ELSE Err(UnexpectedToken(end.val)))

\* deserialize_map, deserialize_struct
deserialize_map(ty, s) ==
  Try(next_char(trim_start(s)), LAMBDA start :
    IF start.val = Ord("{")
      THEN Try(IF ty.k = "struct"
                 THEN struct_visit_map(ty.fields, start.rest, TRUE,
                                       [i \in 1..Len(ty.fields) |-> [some |-> FALSE]])
                 ELSE map_visit_map(ty, start.rest, TRUE, <<>>),
               LAMBDA v : closing_brace(v.val, v.rest))
      ELSE Err(UnexpectedToken(start.val)))

\* VariantAccess for Enum, called by the derived visitor with the variant it
\* matched: unit_variant, newtype_variant_seed, tuple_variant, struct_variant.
variant_payload(variant, s) ==
  IF variant.shape = "unit" THEN unexpected_peek(s)
  ELSE IF variant.shape = "newtype" THEN Deserialize(variant.ty, s)
  ELSE IF variant.shape = "tuple" THEN deserialize_seq(variant.ty, s)
  ELSE deserialize_map(variant.ty, s)

\* visit_enum on a quoted tag: the string's own deserializer knows unit
\* variants only, and an unknown tag is unknown_variant.
visit_enum_str(variants, q) ==
  IF index_of(variants, q.val) = 0 THEN Err(Custom)
  ELSE IF variants[index_of(variants, q.val)].shape # "unit" THEN Err(Custom)
  ELSE Ok(EnumVal(q.val, "unit", UnitVal), q.rest)

\* visit_enum on Enum: variant_seed reads the tag, which the derived visitor
\* rejects when unknown, then the ':'; the payload follows.
visit_enum(variants, s) ==
  Try(Deserialize(TIdentifier, s), LAMBDA tag :
    IF index_of(variants, tag.val.s) = 0 THEN Err(Custom)
    ELSE Try(assert_next_char(trim_start(tag.rest), Ord(":")), LAMBDA c :
           Try(variant_payload(variants[index_of(variants, tag.val.s)], c.rest), LAMBDA v :
             Ok(EnumVal(tag.val.s, variants[index_of(variants, tag.val.s)].shape, v.val),
                v.rest))))

\* deserialize_enum with a derived enum's visitor.
deserialize_enum(ty, s) ==
  Try(peek_char(trim_start(s)), LAMBDA start :
    IF start.val = Ord("\"")
      THEN Try(parse_string(start.rest), LAMBDA q : visit_enum_str(ty.variants, q))
    ELSE IF start.val = Ord("{")
      THEN Try(visit_enum(ty.variants, Tail(start.rest)),
               LAMBDA value : closing_brace(value.val, value.rest))
    ELSE Err(UnexpectedToken(start.val)))

\* deserialize_any: the method is chosen by the first byte; the elements,
\* keys and values of an array or object are read the same way.
deserialize_any(s) ==
  Try(peek_char(trim_start(s)), LAMBDA p :
    CASE p.val = Ord("n") -> deserialize_unit(p.rest)
      [] p.val \in {Ord("t"), Ord("f")} -> deserialize_bool(p.rest)
      [] p.val = Ord("\"") -> deserialize_str(p.rest)
      [] is_ascii_digit(p.val) \/ p.val = Ord("-") -> deserialize_float("f64", p.rest)
      [] p.val = Ord("[") -> deserialize_seq(TSeq(TAny), p.rest)
      [] p.val = Ord("{") -> deserialize_map(TMap(TAny, TAny), p.rest)
      [] OTHER -> Err(UnexpectedToken(p.val)))

\* T::deserialize(&mut des): the decoder method the target type asks for.
Deserialize(ty, s) ==
  CASE ty.k = "bool" -> deserialize_bool(s)
    [] ty.k = "unit" -> deserialize_unit(s)
    [] ty.k = "int" -> deserialize_int(ty.t, s)
    [] ty.k = "float" -> deserialize_float(ty.t, s)
    [] ty.k = "string" -> deserialize_str(s)
    [] ty.k = "identifier" -> deserialize_str(s)
    [] ty.k = "ignored" -> deserialize_ignored_any(s)
    [] ty.k = "option" -> deserialize_option(ty, s)
    [] ty.k = "seq" -> deserialize_seq(ty, s)
    [] ty.k = "tuple" -> deserialize_seq(ty, s)
    [] ty.k = "struct" -> deserialize_map(ty, s)
    [] ty.k = "map" -> deserialize_map(ty, s)
    [] ty.k = "enum" -> deserialize_enum(ty, s)
    [] ty.k = "any" -> deserialize_any(s)

\* from_str that refuses input left over after the value and whitespace.
from_str_strict(ty, input) ==
  Try(Deserialize(ty, input), LAMBDA r :
    IF trim_start(r.rest) = <<>> THEN [ok |-> TRUE, val |-> r.val]
    ELSE unexpected_peek(trim_start(r.rest)))

\* from_str::<T>: the value, or the error; input left over is not looked at.
from_str(ty, input) ==
  Try(Deserialize(ty, input), LAMBDA r : [ok |-> TRUE, val |-> r.val])

(***************************************************************************)
(* Serializer: impl ser::Serializer and Compound. out is the text appended *)
(* so far; a result is [ok |-> TRUE, out |-> text] or an error.            *)
(***************************************************************************)

Out(out) == [ok |-> TRUE, out |-> out]

hex_char(d) == IF d < 10 THEN Ord("0") + d ELSE Ord("a") + (d - 10)
RECURSIVE hex_digits(_)
hex_digits(n) ==
  IF n < 16 THEN <<hex_char(n)>> ELSE Append(hex_digits(n \div 16), hex_char(n % 16))

\* char::escape_default: \t, \r, \n, \', \" and \\ by name, printable ASCII
\* as it is, every other character as \u{hex}.
char_escape_default(ch) ==
  IF ch = TAB THEN Lit(<<"\\", "t">>)
  ELSE IF ch = CR THEN Lit(<<"\\", "r">>)
  ELSE IF ch = LF THEN Lit(<<"\\", "n">>)
  ELSE IF ch \in {Ord("'"), Ord("\""), Ord("\\")} THEN <<Ord("\\"), ch>>
  ELSE IF ch \in 32..126 THEN <<ch>>
  ELSE Lit(<<"\\", "u", "{">>) \o hex_digits(ch) \o Lit(<<"}">>)

\* str::escape_default
RECURSIVE escape_default(_)
escape_default(v) ==
  IF v = <<>> THEN <<>> ELSE char_escape_default(Head(v)) \o escape_default(Tail(v))

\* serialize_bool
serialize_bool(v, out) == Out(out \o (IF v.b THEN Lit(<<"1">>) ELSE Lit(<<"0">>)))

\* Serializer::serialize_simple_string
serialize_simple_string(num, out) == out \o Lit(<<"\"">>) \o num \o Lit(<<"\"">>)

\* serialize_int with the 128-bit widths written like the narrow ones.
serialize_int_64(v, out) ==
  IF v.t \in {"i64", "u64"} THEN Out(serialize_simple_string(int_to_string(v), out))
  ELSE Out(out \o int_to_string(v))

\* serialize_i8 .. serialize_u32 append the decimal; serialize_i64, _u64,
\* _u128, _i128 append it between quotes.
serialize_int(v, out) ==
  IF is_quoted_ty(v.t) THEN Out(serialize_simple_string(int_to_string(v), out))
  ELSE Out(out \o int_to_string(v))

\* serialize_f32, serialize_f64
serialize_float(v, out) ==
  IF is_finite(v) THEN Err(NaN) ELSE Out(out \o format_finite(v))

\* serialize_str
serialize_str(v, out) == Out(out \o Lit(<<"\"">>) \o escape_default(v) \o Lit(<<"\"">>))

\* serialize_unit, serialize_none
serialize_unit(out) == Out(out \o Lit(<<"n", "u", "l", "l">>))

RECURSIVE Serialize(_, _), serialize_elements(_, _, _), serialize_fields(_, _, _),
          serialize_entries(_, _, _), serialize_elements_comma(_, _, _)

\* serialize_element that writes the comma whatever the first-element flag says.
serialize_elements_comma(items, out, first) ==
  IF items = <<>> THEN Out(out)
  ELSE LET r == Serialize(Head(items), out \o Lit(<<",">>)) IN
       IF ~r.ok THEN r ELSE serialize_elements_comma(Tail(items), r.out, FALSE)

\* Compound's serialize_element / serialize_field for the elements of a
\* sequence or tuple in turn; first is Compound.1.
serialize_elements(items, out, first) ==
  IF items = <<>> THEN Out(out)
  ELSE LET r == Serialize(Head(items), IF first THEN out ELSE out \o Lit(<<",">>)) IN
       IF ~r.ok THEN r ELSE serialize_elements(Tail(items), r.out, FALSE)

\* SerializeStruct / SerializeStructVariant::serialize_field for the fields in turn.
serialize_fields(fields, out, first) ==
  IF fields = <<>> THEN Out(out)
  ELSE
    LET key == serialize_str(Head(fields).name,
                             IF first THEN out ELSE out \o Lit(<<",">>))
        r == Serialize(Head(fields).val, key.out \o Lit(<<":">>))
    IN IF ~r.ok THEN r ELSE serialize_fields(Tail(fields), r.out, FALSE)

\* SerializeMap::serialize_key and serialize_value for the entries in turn.
serialize_entries(entries, out, first) ==
  IF entries = <<>> THEN Out(out)
  ELSE
    LET key == Serialize(Head(entries)[1], IF first THEN out ELSE out \o Lit(<<",">>)) IN
    IF ~key.ok THEN key
    ELSE LET r == Serialize(Head(entries)[2], key.out \o Lit(<<":">>)) IN
         IF ~r.ok THEN r ELSE serialize_entries(Tail(entries), r.out, FALSE)

\* serialize_seq / serialize_tuple and SerializeSeq::end
serialize_seq(v, out) ==
  LET r == serialize_elements(v.items, out \o Lit(<<"[">>), TRUE) IN
  IF ~r.ok THEN r ELSE Out(r.out \o Lit(<<"]">>))

\* serialize_struct and SerializeStruct::end
serialize_struct(v, out) ==
  LET r == serialize_fields(v.fields, out \o Lit(<<"{">>), TRUE) IN
  IF ~r.ok THEN r ELSE Out(r.out \o Lit(<<"}">>))

\* serialize_map and SerializeMap::end
serialize_map(v, out) ==
  LET r == serialize_entries(v.entries, out \o Lit(<<"{">>), TRUE) IN
  IF ~r.ok THEN r ELSE Out(r.out \o Lit(<<"}">>))

\* serialize_unit_variant, serialize_newtype_variant, serialize_tuple_variant,
\* serialize_struct_variant (with the ends of their Compound)
serialize_variant(v, out) ==
  IF v.shape = "unit" THEN serialize_str(v.tag, out)
  ELSE
    LET tag == serialize_str(v.tag, out \o Lit(<<"{">>)) IN
    IF v.shape = "newtype"
      THEN LET r == Serialize(v.payload, tag.out \o Lit(<<":">>)) IN
           IF ~r.ok THEN r ELSE Out(r.out \o Lit(<<"}">>))
    ELSE IF v.shape = "tuple"
      THEN LET r == serialize_elements(v.payload.items, tag.out \o Lit(<<":", "[">>), TRUE) IN
           IF ~r.ok THEN r ELSE Out(r.out \o Lit(<<"]", "}">>))
    ELSE LET r == serialize_fields(v.payload.fields, tag.out \o Lit(<<":", "{">>), TRUE) IN
         IF ~r.ok THEN r ELSE Out(r.out \o Lit(<<"}", "}">>))

\* value.serialize(&mut serializer): the encoder method the value asks for.
Serialize(v, out) ==
  CASE v.k = "bool" -> serialize_bool(v, out)
    [] v.k = "unit" -> serialize_unit(out)
    [] v.k = "int" -> serialize_int(v, out)
    [] v.k = "float" -> serialize_float(v, out)
    [] v.k = "str" -> serialize_str(v.s, out)
    [] v.k = "option" -> IF v.some THEN Serialize(v.inner, out) ELSE serialize_unit(out)
    [] v.k = "seq" -> serialize_seq(v, out)
    [] v.k = "struct" -> serialize_struct(v, out)
    [] v.k = "map" -> serialize_map(v, out)
    [] v.k = "enum" -> serialize_variant(v, out)

\* to_string: the concatenation of what the serializer appended, or the error.
to_string(value) == Serialize(value, <<>>)

(***************************************************************************)
(* The values and texts the calls are made on                              *)
(***************************************************************************)

\* Strings have up to MaxStrLen characters of StrAlphabet.
MaxStrLen == 2
\* Integers 0..MaxSmall (and their negatives) besides each type's extremes.
MaxSmall == 2
\* Vec<T> values have up to MaxSeqLen elements.
MaxSeqLen == 2
\* Whitespace characters one text gets in all.
MaxPad == 2
\* A string body has up to MaxPieces characters and escapes.
MaxPieces == 2
\* Arrays and objects are nested up to MaxNesting deep.
MaxNesting == 6

\* Small magnitudes, the test suite's literals and the extremes of each type.
IntMags(t) ==
  {<<d>> : d \in 0..MaxSmall}
  \cup {IntMaxMag(t)}
  \cup (IF t \in {"i8", "u8"} THEN {<<1, 2, 3>>}
        ELSE IF t \in {"i16", "u16"} THEN {<<1, 2, 3, 4, 5>>}
        ELSE IF t \in {"i128", "u128"}
          THEN {<<1, 2, 3, 4, 5, 1, 2, 3, 4, 5, 1, 2, 3, 4, 5, 1, 2, 3, 4, 5>>}
        ELSE {<<1, 2, 3, 4, 5, 1, 2, 3, 4, 5>>})
IntValues(t) ==
  {IntVal(t, FALSE, m) : m \in IntMags(t)}
  \cup (IF is_signed_ty(t)
          THEN {IntVal(t, TRUE, m) : m \in (IntMags(t) \ {<<0>>}) \cup {IntMinMag(t)}}
          ELSE {})

\* Finite decimals (1.3 is the test suite's), the infinities, and NaNs of
\* either sign: the quiet NaN of core::f32::NAN and the one with only the last
\* fraction bit set.
FloatValues(t) ==
  {FloatVal(t, "finite", n, ip, fp) :
     n \in BOOLEAN, ip \in {<<0>>, <<1>>, <<1, 2>>}, fp \in {<<>>, <<3>>, <<2, 5>>}}
  \cup {FloatInf(t, n) : n \in BOOLEAN}
  \cup {FloatVal(t, "nan", n, m, <<>>) :
          n \in BOOLEAN, m \in {float_format(t).nan, dec_succ(float_format(t).one)}}

\* Plain, escaped-by-name, control, apostrophe and non-ASCII characters
\* (U+00E9 is 2 bytes of UTF-8, U+20AC is 3).
StrAlphabet ==
  {Ord("a"), Ord(" "), Ord("\""), Ord("\\"), Ord("/"), Ord("'"), BS, FF, LF, CR, TAB,
   1, 233, 8364}
\* The string of tests/ser.rs test_string.
EscapeTestString == <<Ord("\""), Ord("\\"), Ord("/"), BS, FF, LF, CR, TAB>>
StrValues ==
  UNION {[1..n -> StrAlphabet] : n \in 0..MaxStrLen} \cup {EscapeTestString}

Name(cs) == Lit(cs)
\* A quoted name as the texts of the test suite write it.
Quoted(name) == Lit(<<"\"">>) \o name \o Lit(<<"\"">>)

\* enum E { Unit, Newtype(u32), Tuple(u32, u32), Struct { a: u32 } } of the
\* tests, for the variant names tags[1..4].
EnumE(tags) ==
  TEnum(<< [name |-> tags[1], shape |-> "unit", ty |-> TUnit],
           [name |-> tags[2], shape |-> "newtype", ty |-> TInt("u32")],
           [name |-> tags[3], shape |-> "tuple", ty |-> TTuple(<<TInt("u32"), TInt("u32")>>)],
           [name |-> tags[4], shape |-> "struct",
            ty |-> TStruct(<<[name |-> Name(<<"a">>), ty |-> TInt("u32")]>>)] >>)
\* The tests' variant names, one-letter names, and names that are not ASCII
\* (U+00C9, U+00F1 in identifiers).
TagSets ==
  { << Name(<<"U", "n", "i", "t">>), Name(<<"N", "e", "w", "t", "y", "p", "e">>),
       Name(<<"T", "u", "p", "l", "e">>), Name(<<"S", "t", "r", "u", "c", "t">>) >>,
    << Name(<<"U">>), Name(<<"N">>), Name(<<"T">>), Name(<<"S">>) >>,
    << <<201>> \o Name(<<"t", "e">>), Name(<<"N">>) \o <<241>>, <<241, 241>>,
       Name(<<"S">>) \o <<233>> >> }
U32Values == {IntVal("u32", FALSE, m) : m \in {<<d>> : d \in 0..MaxSmall} \cup {IntMaxMag("u32")}}
EnumValues(tags) ==
  {EnumVal(tags[1], "unit", UnitVal)}
  \cup {EnumVal(tags[2], "newtype", n) : n \in U32Values}
  \cup {EnumVal(tags[3], "tuple", SeqVal(<<n, m>>)) : n, m \in U32Values}
  \cup {EnumVal(tags[4], "struct", StructVal(<<[name |-> Name(<<"a">>), val |-> n]>>)) :
          n \in U32Values}

\* The text the spec gives for a value of E: "Unit", {"Newtype":1},
\* {"Tuple":[1,2]}, {"Struct":{"a":1}}.
EnumText(v) ==
  IF v.shape = "unit" THEN Quoted(v.tag)
  ELSE IF v.shape = "newtype"
    THEN Lit(<<"{">>) \o Quoted(v.tag) \o Lit(<<":">>) \o int_to_string(v.payload)
         \o Lit(<<"}">>)
  ELSE IF v.shape = "tuple"
    THEN Lit(<<"{">>) \o Quoted(v.tag) \o Lit(<<":", "[">>)
         \o int_to_string(v.payload.items[1]) \o Lit(<<",">>)
         \o int_to_string(v.payload.items[2]) \o Lit(<<"]", "}">>)
  ELSE Lit(<<"{">>) \o Quoted(v.tag) \o Lit(<<":", "{">>) \o Quoted(Name(<<"a">>))
       \o Lit(<<":">>) \o int_to_string(v.payload.fields[1].val) \o Lit(<<"}", "}">>)

\* struct Test { int: u32, seq: Vec<String> } of the tests.
TTest ==
  TStruct(<< [name |-> Name(<<"i", "n", "t">>), ty |-> TInt("u32")],
             [name |-> Name(<<"s", "e", "q">>), ty |-> TSeq(TString)] >>)
TestVal(int, seq) ==
  StructVal(<< [name |-> Name(<<"i", "n", "t">>), val |-> int],
               [name |-> Name(<<"s", "e", "q">>), val |-> SeqVal(seq)] >>)
WordValues == {StrVal(Name(<<"a">>)), StrVal(Name(<<"b">>))}
Vecs(S) == UNION {[1..n -> S] : n \in 0..MaxSeqLen}

\* Every (target type, value) the encoder is called on.
ScalarValues ==
  {<<TBool, BoolVal(b)>> : b \in BOOLEAN}
  \cup {<<TUnit, UnitVal>>}
  \cup UNION {{<<TInt(t), v>> : v \in IntValues(t)} : t \in IntTypes}
  \cup UNION {{<<TFloat(t), v>> : v \in FloatValues(t)} : t \in FloatTypes}
StringValues == {<<TString, StrVal(v)>> : v \in StrValues}
CompoundValues ==
  UNION {{<<EnumE(tags), v>> : v \in EnumValues(tags)} : tags \in TagSets}
  \cup {<<TSeq(TInt("u32")), SeqVal(items)>> : items \in Vecs(U32Values)}
  \cup {<<TTest, TestVal(n, seq)>> : n \in U32Values, seq \in Vecs(WordValues)}
  \cup {<<TMap(TInt("u32"), TInt("u32")), MapVal(es)>> :
          es \in { <<>>, << <<IntVal("u32", FALSE, <<1>>), IntVal("u32", FALSE, <<2>>)>> >>,
                   << <<IntVal("u32", FALSE, <<1>>), IntVal("u32", FALSE, <<2>>)>>,
                      <<IntVal("u32", FALSE, <<2>>), IntVal("u32", FALSE, <<0>>)>> >> }}
  \cup {<<TMap(TInt("i64"), TInt("u32")), MapVal(es)>> :
          es \in { <<>>, << <<IntVal("i64", TRUE, <<1>>), IntVal("u32", FALSE, <<2>>)>> >>,
                   << <<IntVal("i64", TRUE, <<1>>), IntVal("u32", FALSE, <<2>>)>>,
                      <<IntVal("i64", FALSE, <<2>>), IntVal("u32", FALSE, <<0>>)>> >> }}

(***************************************************************************)
(* The state: the last call made on the codec and what it returned.        *)
(***************************************************************************)

VARIABLES
  op,        \* the last call: "new", "to_string", "round_trip", "from_str", "re_encode", ...
  ty,        \* the type the call was made at
  value,     \* the value given to to_string, or the value a text given to from_str stands for
  encoded,   \* what to_string returned
  input,     \* the text given to from_str
  decoded,   \* what from_str returned
  cursor,    \* Deserializer.0 when from_str returned Ok
  tokens,    \* the tokens of a text built from tokens
  pads,      \* the whitespace before each token and after the last
  base       \* what from_str returned for the tokens without whitespace

vars == <<op, ty, value, encoded, input, decoded, cursor, tokens, pads, base>>

NoResult == Err([kind |-> "none", arg |-> -1])

Init ==
  /\ op = "new"
  /\ ty = TUnit
  /\ value = UnitVal
  /\ encoded = NoResult
  /\ input = <<>>
  /\ decoded = NoResult
  /\ cursor = <<>>
  /\ tokens = <<>>
  /\ pads = <<>>
  /\ base = NoResult

\* The cursor a successful from_str(t, text) leaves.
CursorAfter(t, text) ==
  LET r == Deserialize(t, text) IN IF r.ok THEN r.rest ELSE <<>>

\* to_string(&v) for a value v of type t.
Encode(t, v) ==
  /\ op = "new"
  /\ op' = "to_string"
  /\ ty' = t
  /\ value' = v
  /\ encoded' = to_string(v)
  /\ input' = <<>>
  /\ decoded' = NoResult
  /\ cursor' = <<>>
  /\ UNCHANGED <<tokens, pads, base>>

\* from_str::<T>(&text) on the text to_string just returned for a T.
RoundTrip ==
  /\ op = "to_string"
  /\ encoded.ok
  /\ op' = "round_trip"
  /\ input' = encoded.out
  /\ decoded' = from_str(ty, encoded.out)
  /\ cursor' = CursorAfter(ty, encoded.out)
  /\ UNCHANGED <<ty, value, encoded, tokens, pads, base>>

\* from_str::<T>(&text) on a text written by hand; v is the value the text
\* stands for (UnitVal when it stands for none).
Decode(kind, t, text, v) ==
  /\ op = "new"
  /\ op' = kind
  /\ ty' = t
  /\ value' = v
  /\ encoded' = NoResult
  /\ input' = text
  /\ decoded' = from_str(t, text)
  /\ cursor' = CursorAfter(t, text)
  /\ UNCHANGED <<tokens, pads, base>>

\* to_string(&v) of the value from_str just returned.
ReEncode ==
  /\ op \in {"from_str_enum"}
  /\ decoded.ok
  /\ op' = "re_encode"
  /\ encoded' = to_string(decoded.val)
  /\ UNCHANGED <<ty, value, input, decoded, cursor, tokens, pads, base>>

\* The call's serializer or deserializer is dropped; nothing is kept between calls.
Finish ==
  /\ op # "new"
  /\ op' = "new"
  /\ ty' = TUnit
  /\ value' = UnitVal
  /\ encoded' = NoResult
  /\ input' = <<>>
  /\ decoded' = NoResult
  /\ cursor' = <<>>
  /\ tokens' = <<>>
  /\ pads' = <<>>
  /\ base' = NoResult

\* Texts given to from_str::<bool>.
BoolTexts ==
  { Lit(<<"1">>), Lit(<<"0">>), Lit(<<"t", "r", "u", "e">>), Lit(<<"f", "a", "l", "s", "e">>),
    Lit(<<" ", "1">>), <<TAB, LF>> \o Lit(<<"f", "a", "l", "s", "e">>),
    Lit(<<"1", "0">>), Lit(<<"0", ",">>), Lit(<<"t", "r", "u", "e", "]">>),
    Lit(<<"f", "a", "l", "s", "e", "x">>), Lit(<<"1", " ">>),
    <<>>, Lit(<<" ">>), Lit(<<"2">>), Lit(<<"-", "1">>), Lit(<<"T", "r", "u", "e">>),
    Lit(<<"t">>), Lit(<<"t", "r", "u">>), Lit(<<"f", "a", "l", "s">>), Lit(<<"y", "e", "s">>),
    Lit(<<"n", "u", "l", "l">>), Lit(<<"\"", "1", "\"">>), Lit(<<"T", "R", "U", "E">>),
    Lit(<<"F", "a", "l", "s", "e">>), Lit(<<"x", "1">>), <<233>> }

DecodeBool == \E text \in BoolTexts : Decode("from_str_bool", TBool, text, UnitVal)

\* from_str at an integer type on the decimal of one of its values, bare or
\* between quotes.
DecodeInt ==
  \E t \in IntTypes : \E v \in IntValues(t) :
    \/ Decode("from_str_bare", TInt(t), int_to_string(v), v)
    \/ Decode("from_str_quoted", TInt(t), Quoted(int_to_string(v)), v)

\* from_str::<E> on the spec's text for a value of E.
DecodeEnum ==
  \E tags \in TagSets : \E v \in EnumValues(tags) :
    Decode("from_str_enum", EnumE(tags), EnumText(v), v)

Null == Lit(<<"n", "u", "l", "l">>)
\* Texts given to from_str at f32 and f64; the last three are decimals that
\* are not floats (2^24 + 1, past the digits of an f64, past the range of an f32).
FloatTexts ==
  { Null, Null \o Lit(<<",">>), Null \o Lit(<<"]">>), Lit(<<" ">>) \o Null,
    Lit(<<"1", ".", "3">>), Lit(<<"-", "2", ".", "5">>), Lit(<<"1", ".">>), Lit(<<".", "5">>),
    Lit(<<"1", "2">>), Lit(<<"1", ".", "5", ",">>), Lit(<<"-">>), <<>>, Lit(<<"1", ".", "2", ".", "3">>),
    Lit(<<"n", "u", "l">>), Lit(<<"1", "-", "2">>), Lit(<<"N", "a", "N">>),
    Lit(<<"1", "6", "7", "7", "7", "2", "1", "7">>),
    Lit(<<"0", ".", "1", "0", "0", "0", "0", "0", "0", "0", "0", "0", "0", "0", "0", "0", "0", "0", "1">>),
    Lit(<<"1">>) \o [i \in 1..39 |-> Ord("0")] }
\* Texts given to from_str at Vec<f32> and Vec<f64>.
FloatSeqTexts ==
  { Lit(<<"[", "]">>), Lit(<<"[">>) \o Null \o Lit(<<"]">>),
    Lit(<<"[">>) \o Null \o Lit(<<",">>) \o Null \o Lit(<<"]">>),
    Lit(<<"[", "1", ".", "5", ",">>) \o Null \o Lit(<<"]">>),
    Lit(<<"[">>) \o Null \o Lit(<<",", "1", ".", "5", "]">>),
    Lit(<<"[", "1", ".", "5", ",", "2", ".", "5", "]">>),
    Lit(<<"[", " ">>) \o Null \o Lit(<<" ", ",", " ">>) \o Null \o Lit(<<" ", "]">>) }

DecodeFloat ==
  \E t \in FloatTypes :
    \/ \E text \in FloatTexts : Decode("from_str_float", TFloat(t), text, UnitVal)
    \/ \E text \in FloatSeqTexts : Decode("from_str_floats", TSeq(TFloat(t)), text, UnitVal)

\* The whitespace the property is about: space, tab, newline, carriage return.
Whitespace == {Ord(" "), TAB, LF, CR}

\* Texts that decode, as their tokens: scalars, sequences, a tuple, the struct
\* and the document of tests/de.rs test_struct, maps, and the four shapes of E.
TokenDocs ==
  LET E == EnumE(<< Name(<<"U", "n", "i", "t">>), Name(<<"N", "e", "w", "t", "y", "p", "e">>),
                    Name(<<"T", "u", "p", "l", "e">>), Name(<<"S", "t", "r", "u", "c", "t">>) >>)
      t(c) == Lit(<<c>>)
  IN
  { <<TBool, <<t("1")>>>>, <<TBool, <<Lit(<<"f", "a", "l", "s", "e">>)>>>>,
    <<TUnit, <<Null>>>>,
    <<TInt("i32"), <<Lit(<<"-", "1", "2">>)>>>>,
    <<TInt("u64"), <<Quoted(t("5"))>>>>,
    <<TFloat("f64"), <<Lit(<<"1", ".", "5">>)>>>>,
    <<TFloat("f32"), <<Null>>>>,
    <<TString, <<Quoted(Lit(<<"a", " ", "b">>))>>>>,
    <<TOption(TInt("u32")), <<t("1")>>>>,
    <<TOption(TInt("u32")), <<Null>>>>,
    <<TSeq(TInt("u32")), <<t("["), t("]")>>>>,
    <<TSeq(TInt("u32")), <<t("["), t("1"), t(","), t("2"), t("]")>>>>,
    <<TSeq(TFloat("f32")), <<t("["), Lit(<<"1", ".", "5">>), t(","), Lit(<<"-", "2">>), t("]")>>>>,
    <<TTuple(<<TBool, TString>>), <<t("["), t("0"), t(","), Quoted(t("a")), t("]")>>>>,
    <<TTest, <<t("{"), Quoted(Name(<<"i", "n", "t">>)), t(":"), t("1"), t(","),
               Quoted(Name(<<"s", "e", "q">>)), t(":"), t("["), Quoted(t("a")), t(","),
               Quoted(t("b")), t("]"), t("}")>>>>,
    <<TMap(TInt("u32"), TInt("u32")), <<t("{"), t("}")>>>>,
    <<TMap(TInt("u32"), TInt("u32")), <<t("{"), t("1"), t(":"), t("2"), t(","), t("2"), t(":"),
                                        t("0"), t("}")>>>>,
    <<E, <<Quoted(Name(<<"U", "n", "i", "t">>))>>>>,
    <<E, <<t("{"), Quoted(Name(<<"N", "e", "w", "t", "y", "p", "e">>)), t(":"), t("1"), t("}")>>>>,
    <<E, <<t("{"), Quoted(Name(<<"T", "u", "p", "l", "e">>)), t(":"), t("["), t("1"), t(","),
           t("2"), t("]"), t("}")>>>>,
    <<E, <<t("{"), Quoted(Name(<<"S", "t", "r", "u", "c", "t">>)), t(":"), t("{"),
           Quoted(t("a")), t(":"), t("1"), t("}"), t("}")>>>> }

\* The text of the tokens toks with the whitespace ws[i] before token i and
\* ws[Len(toks) + 1] after the last.
RECURSIVE Join(_, _)
Join(toks, ws) ==
  IF toks = <<>> THEN Head(ws) ELSE Head(ws) \o Head(toks) \o Join(Tail(toks), Tail(ws))

\* The number of whitespace characters in ws.
RECURSIVE PadCount(_)
PadCount(ws) == IF ws = <<>> THEN 0 ELSE Len(Head(ws)) + PadCount(Tail(ws))

\* from_str::<T>(&text) on a text given as its tokens, nothing between them.
DecodeTokens ==
  /\ op = "new"
  /\ \E doc \in TokenDocs :
       /\ op' = "tokens"
       /\ ty' = doc[1]
       /\ tokens' = doc[2]
       /\ pads' = [i \in 1..(Len(doc[2]) + 1) |-> <<>>]
       /\ input' = Join(doc[2], [i \in 1..(Len(doc[2]) + 1) |-> <<>>])
       /\ base' = from_str(doc[1], input')
       /\ decoded' = from_str(doc[1], input')
       /\ cursor' = CursorAfter(doc[1], input')
  /\ UNCHANGED <<value, encoded>>

\* from_str::<T>(&text) on the same tokens with one more whitespace character
\* at the end of the run before token gap (after the last token for the last gap).
InsertWhitespace ==
  /\ op \in {"tokens", "padded"}
  /\ PadCount(pads) < MaxPad
  /\ \E gap \in 1..Len(pads) : \E w \in Whitespace :
       /\ pads' = [pads EXCEPT ![gap] = Append(@, w)]
       /\ input' = Join(tokens, pads')
       /\ decoded' = from_str(ty, input')
       /\ cursor' = CursorAfter(ty, input')
  /\ op' = "padded"
  /\ UNCHANGED <<ty, value, encoded, tokens, base>>

\* from_str::<T>(&text) on the tokens with the same whitespace before every
\* token and after the last.
PadEvery ==
  /\ op = "tokens"
  /\ \E w \in Whitespace :
       /\ pads' = [i \in 1..Len(pads) |-> <<w>>]
       /\ input' = Join(tokens, pads')
       /\ decoded' = from_str(ty, input')
       /\ cursor' = CursorAfter(ty, input')
  /\ op' = "padded"
  /\ UNCHANGED <<ty, value, encoded, tokens, base>>

\* Values of structs and maps whose to_string text is an object that decodes.
ObjectValues == {p \in CompoundValues : p[2].k \in {"struct", "map"}}
\* What may stand before the closing brace or the end of the input.
Gaps == {<<>>, <<Ord(" ")>>, <<LF>>}

\* from_str on an object text with a comma put directly before its closing brace.
TrailingComma ==
  \E p \in ObjectValues : \E ws \in Gaps :
    Decode("trailing_comma", p[1],
           SubSeq(to_string(p[2]).out, 1, Len(to_string(p[2]).out) - 1)
             \o Lit(<<",">>) \o ws \o Lit(<<"}">>),
           p[2])

\* from_str on an object text that ends where its closing brace should be.
MissingBrace ==
  \E p \in ObjectValues : \E ws \in Gaps :
    Decode("missing_brace", p[1],
           SubSeq(to_string(p[2]).out, 1, Len(to_string(p[2]).out) - 1) \o ws,
           p[2])

\* Option<u32> as an element of a Vec and as a field of a struct
\* { a: Option<u32>, b: u32 }, { b: u32, a: Option<u32> }.
OptionValues ==
  LET opts == {NoneVal} \cup {SomeVal(n) : n \in U32Values}
      a == Name(<<"a">>)
      b == Name(<<"b">>)
      one == IntVal("u32", FALSE, <<1>>)
  IN
  {<<TSeq(TOption(TInt("u32"))), SeqVal(items)>> : items \in Vecs(opts)}
  \cup {<<TStruct(<<[name |-> a, ty |-> TOption(TInt("u32"))], [name |-> b, ty |-> TInt("u32")]>>),
          StructVal(<<[name |-> a, val |-> o], [name |-> b, val |-> one]>>)>> : o \in opts}
  \cup {<<TStruct(<<[name |-> b, ty |-> TInt("u32")], [name |-> a, ty |-> TOption(TInt("u32"))]>>),
          StructVal(<<[name |-> b, val |-> one], [name |-> a, val |-> o]>>)>> : o \in opts}

\* from_str::<Option<u32>> on null or a number and what may follow it in a
\* sequence or an object.
DecodeOption ==
  \E o \in {NoneVal} \cup {SomeVal(n) : n \in U32Values} :
    \E after \in {<<>>, Lit(<<",">>), Lit(<<"]">>), Lit(<<"}">>), Lit(<<" ", ",", "1">>)} :
      Decode("from_str_option", TOption(TInt("u32")),
             (IF o.some THEN int_to_string(o.inner) ELSE Null) \o after, o)

\* from_str::<Test> on the text of a Test with the pair "x":extra, which Test
\* has no field for, put first or last in the object; and
\* from_str::<IgnoredAny> on extra followed by a comma.
DecodeUnknownKey ==
  \E extra \in { Lit(<<"1">>), Quoted(Name(<<"s">>)), Null, Lit(<<"[", "1", ",", "2", "]">>),
                 Lit(<<"[", "]">>), Lit(<<"{">>) \o Quoted(Name(<<"k">>)) \o Lit(<<":", "1", "}">>) } :
    \/ \E n \in U32Values : \E seq \in Vecs(WordValues) :
         LET text == to_string(TestVal(n, seq)).out
             pair == Quoted(Name(<<"x">>)) \o Lit(<<":">>) \o extra
         IN
         \/ Decode("from_str_unknown_key", TTest,
                   Lit(<<"{">>) \o pair \o Lit(<<",">>) \o Tail(text), TestVal(n, seq))
         \/ Decode("from_str_unknown_key", TTest,
                   SubSeq(text, 1, Len(text) - 1) \o Lit(<<",">>) \o pair \o Lit(<<"}">>),
                   TestVal(n, seq))
    \/ Decode("from_str_ignored", TIgnored, extra \o Lit(<<",">>), IgnoredVal)

\* Vec<Vec<u32>> values: compounds inside a compound, empty ones among them.
NestedValues ==
  LET inner == {SeqVal(items) : items \in Vecs({IntVal("u32", FALSE, <<d>>) : d \in 0..1})} IN
  {<<TSeq(TSeq(TInt("u32"))), SeqVal(outer)>> : outer \in Vecs(inner)}

\* The pieces a string body is made of: a plain character (1, 2 or 3 bytes
\* of UTF-8) or an escape.
PieceTexts ==
  {<<c>> : c \in {Ord("a"), Ord(" "), Ord("/"), Ord("'"), 233, 8364}}
  \cup {<<Ord("\\"), c>> : c \in {Ord("\""), Ord("\\"), Ord("/"), Ord("b"), Ord("f"), Ord("n"),
                                  Ord("r"), Ord("t")}}
  \cup {Lit(<<"\\", "u">>) \o Lit(h) : h \in {<<"0", "0", "2", "2">>, <<"0", "0", "e", "9">>,
                                              <<"2", "0", "A", "C">>, <<"0", "0", "0", "0">>}}

\* All the texts of parts, one after the other.
RECURSIVE Concat(_)
Concat(parts) == IF parts = <<>> THEN <<>> ELSE Head(parts) \o Concat(Tail(parts))

\* from_str::<String> on a quoted string of up to MaxPieces pieces with
\* something after it; base keeps what parse_string returned.
DecodeString ==
  /\ op = "new"
  /\ \E n \in 0..MaxPieces : \E parts \in [1..n -> PieceTexts] :
       \E after \in {<<>>, Lit(<<",">>), Lit(<<"a", "\"">>)} :
         /\ tokens' = parts
         /\ pads' = <<after>>
         /\ input' = Quoted(Concat(parts)) \o after
         /\ base' = parse_string(input')
         /\ decoded' = from_str(TString, input')
         /\ cursor' = CursorAfter(TString, input')
  /\ op' = "from_str_string"
  /\ ty' = TString
  /\ UNCHANGED <<value, encoded>>

\* from_str::<String> on a string whose first backslash starts something
\* that is not an escape, or that the end of the input cuts short.
DecodeEscape ==
  \E before \in {<<>>, Lit(<<"a">>), <<233>>} :
    \E esc \in { <<>>, Lit(<<"u">>), Lit(<<"u", "0", "0">>), Lit(<<"u", "0", "0", "g", "1">>),
                 Lit(<<"u", "D", "8", "0", "0">>), Lit(<<"u", "d", "f", "f", "f">>),
                 Lit(<<"u", "{", "8", "}">>), Lit(<<"u", "1", "2", "\"">>), Lit(<<"x">>),
                 Lit(<<"'">>), Lit(<<"0">>), Lit(<<"U", "0", "0", "4", "1">>) } :
      \E after \in {<<>>, Lit(<<"a", "\"">>)} :
        Decode("from_str_escape", TString,
               Lit(<<"\"">>) \o before \o Lit(<<"\\">>) \o esc \o after, UnitVal)

\* core wrapped in n arrays, or in n objects as the value of the key "a".
RECURSIVE NestedText(_, _, _)
NestedText(n, open, core) ==
  IF n = 0 THEN core
  ELSE IF open = Ord("[") THEN Lit(<<"[">>) \o NestedText(n - 1, open, core) \o Lit(<<"]">>)
  ELSE Lit(<<"{">>) \o Quoted(Name(<<"a">>)) \o Lit(<<":">>) \o NestedText(n - 1, open, core)
       \o Lit(<<"}">>)

\* from_str at a self-describing target on arrays in arrays and objects in
\* objects, from none to MaxNesting deep.
DecodeNested ==
  \E n \in 0..MaxNesting : \E open \in {Ord("["), Ord("{")} :
    \E core \in {Lit(<<"1">>), Null, Lit(<<"[", "]">>), Quoted(Name(<<"a">>))} :
      Decode("from_str_nested", TAny, NestedText(n, open, core), UnitVal)

\* from_str at an array, tuple, object, struct and enum target on a text whose
\* first character after the whitespace does not open that kind of value; the
\* character is the last of the text or is followed by more.
DecodeBadOpen ==
  LET E == EnumE(<< Name(<<"U">>), Name(<<"N">>), Name(<<"T">>), Name(<<"S">>) >>)
      opens(t) == IF t.k \in {"seq", "tuple"} THEN {Ord("[")}
                  ELSE IF t.k = "enum" THEN {Ord("{"), Ord("\"")}
                  ELSE {Ord("{")}
  IN
  \E t \in {TSeq(TInt("u32")), TTuple(<<TInt("u32"), TBool>>), TMap(TInt("u32"), TInt("u32")),
            TTest, E} :
    \E c \in {Ord("x"), Ord("1"), Ord("["), Ord("{"), Ord("]"), Ord("\""), 233} \ opens(t) :
      \E ws \in Gaps : \E tail \in {<<>>, Lit(<<"y">>), Lit(<<"1", "]">>), Lit(<<" ">>)} :
        Decode("from_str_bad_open", t, ws \o <<c>> \o tail, UnitVal)

\* from_str::<T>(&text) on the text of the tokens with more characters put
\* after its last one.
AppendTrailing ==
  /\ op = "tokens"
  /\ \E tail \in {<<Ord(" ")>>, Lit(<<"x">>), Lit(<<"1">>), Lit(<<",", "1">>), Lit(<<"]">>),
                  Lit(<<"}">>), Lit(<<"\"">>), Lit(<<"\\">>), Lit(<<"[">>), <<233>>,
                  Lit(<<":", "n", "u", "l", "l", "}">>)} :
       /\ op' = "trailing"
       /\ input' = input \o tail
       /\ decoded' = from_str(ty, input')
       /\ cursor' = CursorAfter(ty, input')
  /\ UNCHANGED <<ty, value, encoded, tokens, pads, base>>

Next ==
  \/ \E p \in ScalarValues : Encode(p[1], p[2])
  \/ \E p \in StringValues : Encode(p[1], p[2])
  \/ \E p \in CompoundValues : Encode(p[1], p[2])
  \/ \E p \in OptionValues : Encode(p[1], p[2])
  \/ \E p \in NestedValues : Encode(p[1], p[2])
  \/ RoundTrip
  \/ DecodeBool
  \/ DecodeInt
  \/ DecodeEnum
  \/ DecodeFloat
  \/ ReEncode
  \/ DecodeTokens
  \/ InsertWhitespace
  \/ PadEvery
  \/ TrailingComma
  \/ MissingBrace
  \/ DecodeOption
  \/ DecodeUnknownKey
  \/ DecodeString
  \/ DecodeEscape
  \/ DecodeNested
  \/ DecodeBadOpen
  \/ AppendTrailing
  \/ Finish

Spec == Init /\ [][Next]_vars

(***************************************************************************)
(* Properties                                                              *)
(***************************************************************************)

\* C1: for every bool, for unit and for every integer of every width, to_string
\* returns Ok and from_str on its text returns Ok with the original value.
C1_ScalarRoundTrip ==
  (op \in {"to_string", "round_trip"} /\ ty.k \in {"bool", "unit", "int"}) =>
    /\ encoded.ok
    /\ op = "round_trip" => decoded.ok /\ decoded.val = value

\* The minimum of i128 has gone through to_string and from_str.
C1_Witness ==
  /\ op = "round_trip"
  /\ ty = TInt("i128")
  /\ value = IntVal("i128", TRUE, IntMinMag("i128"))
  /\ decoded.ok

\* C2: for every string s, from_str::<String> on to_string(s) returns Ok with
\* a string equal to s.
C2_StringRoundTrip ==
  (op \in {"to_string", "round_trip"} /\ ty.k = "string") =>
    /\ encoded.ok
    /\ op = "round_trip" => decoded.ok /\ decoded.val = value

\* C3: to_string of a float returns an error for NaN and the infinities, and
\* Ok with the decimal literal for a finite value.
C3_FloatEncode ==
  (op = "to_string" /\ ty.k = "float") =>
    IF value.cls = "finite"
      THEN encoded.ok /\ encoded.out = format_finite(value)
      ELSE ~encoded.ok

\* The two-character escape the string format gives each of the eight
\* characters: \" \\ \/ \b \f \n \r \t.
JsonEscape(ch) ==
  CASE ch = Ord("\"") -> Lit(<<"\\", "\"">>)
    [] ch = Ord("\\") -> Lit(<<"\\", "\\">>)
    [] ch = Ord("/") -> Lit(<<"\\", "/">>)
    [] ch = BS -> Lit(<<"\\", "b">>)
    [] ch = FF -> Lit(<<"\\", "f">>)
    [] ch = LF -> Lit(<<"\\", "n">>)
    [] ch = CR -> Lit(<<"\\", "r">>)
    [] ch = TAB -> Lit(<<"\\", "t">>)
RECURSIVE JsonEscapeAll(_)
JsonEscapeAll(v) == IF v = <<>> THEN <<>> ELSE JsonEscape(Head(v)) \o JsonEscapeAll(Tail(v))

\* C4: to_string of a string made of the characters double quote, backslash,
\* slash, backspace, form feed, newline, carriage return and tab is a double
\* quote, the two-character escape of each character, and a double quote.
C4_StringEscapes ==
  (/\ op = "to_string"
   /\ ty.k = "string"
   /\ \A i \in 1..Len(value.s) : value.s[i] \in {Ord("\""), Ord("\\"), Ord("/"), BS, FF, LF, CR, TAB})
  => /\ encoded.ok
     /\ encoded.out = Lit(<<"\"">>) \o JsonEscapeAll(value.s) \o Lit(<<"\"">>)

\* C5: the text of each shape of the enum ("Unit", {"Newtype":1},
\* {"Tuple":[1,2]}, {"Struct":{"a":1}}, for every tag and payload) decodes to
\* that variant, and to_string of the decoded value is the same text.
C5_EnumDecodeReencode ==
  /\ op \in {"from_str_enum", "re_encode"} => decoded.ok /\ decoded.val = value
  /\ op = "re_encode" => encoded.ok /\ encoded.out = input

\* A text is an optional '-' and one or more decimal digits.
IsDecimal(text) ==
  LET digits == IF text # <<>> /\ Head(text) = Ord("-") THEN Tail(text) ELSE text IN
  digits # <<>> /\ \A i \in 1..Len(digits) : digits[i] \in Ord("0")..Ord("9")
\* The 64-bit and 128-bit integer types.
WideInts == {"i64", "u64", "i128", "u128"}

\* C6: a 64-bit or 128-bit integer is encoded as its decimal between double
\* quotes and decoded from that form only (the bare decimal is rejected); an
\* 8-, 16- or 32-bit integer is encoded as the bare decimal and decoded from it.
C6_WideIntsQuoted ==
  /\ (op = "to_string" /\ ty.k = "int") =>
       /\ encoded.ok
       /\ IF ty.t \in WideInts
            THEN /\ Len(encoded.out) >= 3
                 /\ Head(encoded.out) = Ord("\"")
                 /\ encoded.out[Len(encoded.out)] = Ord("\"")
                 /\ IsDecimal(SubSeq(encoded.out, 2, Len(encoded.out) - 1))
            ELSE IsDecimal(encoded.out)
  /\ (op = "from_str_quoted" /\ ty.t \in WideInts) => decoded.ok /\ decoded.val = value
  /\ (op = "from_str_bare" /\ ty.t \in WideInts) => ~decoded.ok
  /\ (op = "from_str_bare" /\ ty.t \notin WideInts) => decoded.ok /\ decoded.val = value

\* The bare decimal of the maximum of u128 was given to from_str::<u128>,
\* which rejected it.
C6_Witness ==
  /\ op = "from_str_bare"
  /\ ty = TInt("u128")
  /\ input = int_to_string(IntVal("u128", FALSE, IntMaxMag("u128")))
  /\ ~decoded.ok

\* The input of the last call after its leading whitespace.
Trimmed == trim_start(input)
TrueLiterals == {Lit(<<"1">>), Lit(<<"t", "r", "u", "e">>)}
FalseLiterals == {Lit(<<"0">>), Lit(<<"f", "a", "l", "s", "e">>)}

\* C7: decoding a bool succeeds exactly when the text starts with one of the
\* literals 1, 0, true, false; 1 and true give true, 0 and false give false,
\* and the cursor is moved past the characters of the literal and no more;
\* to_string of a bool is the text 1 for true and 0 for false.
C7_BoolLiterals ==
  /\ op = "from_str_bool" =>
       /\ decoded.ok <=> \E lit \in TrueLiterals \cup FalseLiterals : starts_with(Trimmed, lit)
       /\ \A lit \in TrueLiterals \cup FalseLiterals :
            starts_with(Trimmed, lit) =>
              /\ decoded.ok
              /\ decoded.val = BoolVal(lit \in TrueLiterals)
              /\ cursor = SubSeq(Trimmed, Len(lit) + 1, Len(Trimmed))
  /\ (op = "to_string" /\ ty.k = "bool") =>
       /\ encoded.ok
       /\ encoded.out = IF value.b THEN Lit(<<"1">>) ELSE Lit(<<"0">>)

\* The text true] was decoded as a bool: true, with the bracket left.
C7_Witness ==
  /\ op = "from_str_bool"
  /\ input = Lit(<<"t", "r", "u", "e", "]">>)
  /\ decoded.ok
  /\ decoded.val.b
  /\ cursor = Lit(<<"]">>)

\* C8: when a text decodes, the text with whitespace (space, tab, newline,
\* carriage return) put before its first token, after its last or between any
\* two decodes to the same value.
C8_WhitespaceInsensitive ==
  (op = "padded" /\ base.ok) => decoded.ok /\ decoded.val = base.val

\* The document of test_struct decoded with whitespace before every token
\* and after the last.
C8_Witness ==
  /\ op = "padded"
  /\ ty = TTest
  /\ base.ok
  /\ \A i \in 1..Len(pads) : pads[i] # <<>>
  /\ decoded.ok

\* The error kinds for an unexpected token and for the end of the input.
TokenOrEnd == {"UnexpectedToken", "UnexpectedEnd"}

\* C9: an object text of a struct or map with a comma directly before its
\* closing brace, or without its closing brace, never decodes, and the error
\* is an unexpected token or the unexpected end of the input.
C9_MalformedTokenOrEnd ==
  op \in {"trailing_comma", "missing_brace"} =>
    ~decoded.ok /\ decoded.err.kind \in TokenOrEnd

\* C10: a float decoded from a text that starts with null is NaN and the
\* cursor is past the four characters of null; [null,null] decodes to a
\* sequence of two NaNs.
C10_FloatNull ==
  /\ (op = "from_str_float" /\ starts_with(Trimmed, Null)) =>
       /\ decoded.ok
       /\ decoded.val.cls = "nan"
       /\ cursor = SubSeq(Trimmed, 5, Len(Trimmed))
  /\ (op = "from_str_floats" /\ input = Lit(<<"[">>) \o Null \o Lit(<<",">>) \o Null \o Lit(<<"]">>)) =>
       /\ decoded.ok
       /\ decoded.val = SeqVal(<<FloatNaN(ty.of.t), FloatNaN(ty.of.t)>>)

\* The value of the last call holds an Option: a sequence of them or a
\* struct with an Option field.
HasOption ==
  \/ ty.k = "seq" /\ ty.of.k = "option"
  \/ ty.k = "struct" /\ \E i \in 1..Len(ty.fields) : ty.fields[i].ty.k = "option"

\* C11: an Option<u32> in a sequence or a struct field survives to_string then
\* from_str; None is written null and Some(n) as n's decimal; decoding null
\* at an Option gives None with the cursor past the null.
C11_OptionRoundTrip ==
  /\ (op \in {"to_string", "round_trip"} /\ HasOption) =>
       /\ encoded.ok
       /\ op = "round_trip" => decoded.ok /\ decoded.val = value
  /\ (op = "to_string" /\ ty = TSeq(TOption(TInt("u32"))) /\ Len(value.items) = 1) =>
       encoded.out = Lit(<<"[">>)
                     \o (IF value.items[1].some THEN int_to_string(value.items[1].inner) ELSE Null)
                     \o Lit(<<"]">>)
  /\ (op = "from_str_option" /\ ~value.some) =>
       /\ decoded.ok
       /\ decoded.val = NoneVal
       /\ cursor = SubSeq(input, 5, Len(input))

\* C12: deserialize_ignored_any moves the cursor past the whole of one value,
\* so a struct decodes from an object that has one more pair, with an unknown
\* key, and the fields are those of the known pairs.
C12_IgnoredAnySkipsValue ==
  /\ op = "from_str_ignored" => decoded.ok /\ cursor = Lit(<<",">>)
  /\ op = "from_str_unknown_key" => decoded.ok /\ decoded.val = value

\* The values directly inside a value: elements, field values, keys and
\* values of the entries, a variant's payload, the content of Some.
Children(v) ==
  CASE v.k = "seq" -> v.items
    [] v.k = "struct" -> [i \in 1..Len(v.fields) |-> v.fields[i].val]
    [] v.k = "map" -> [i \in 1..(2 * Len(v.entries)) |-> v.entries[(i + 1) \div 2][2 - (i % 2)]]
    [] v.k = "enum" -> <<v.payload>>
    [] v.k = "option" -> IF v.some THEN <<v.inner>> ELSE <<>>
    [] OTHER -> <<>>
\* The elements or entries of a sequence, struct or map; 0 for any other value.
Arity(v) ==
  CASE v.k = "seq" -> Len(v.items)
    [] v.k = "struct" -> Len(v.fields)
    [] v.k = "map" -> Len(v.entries)
    [] OTHER -> 0
\* What the value v itself, without the values inside it, adds to the text:
\* its commas, its opening brackets or its opening braces.
Own(v, what) ==
  CASE what = "," -> IF Arity(v) > 0 THEN Arity(v) - 1 ELSE 0
    [] what = "[" -> IF v.k = "seq" THEN 1 ELSE 0
    [] what = "{" -> IF v.k \in {"struct", "map"} \/ (v.k = "enum" /\ v.shape # "unit")
                       THEN 1 ELSE 0
\* The sum of Own over v and every value inside it.
RECURSIVE Total(_, _)
Total(v, what) ==
  LET sum[i \in 0..Len(Children(v))] ==
        IF i = 0 THEN 0 ELSE sum[i - 1] + Total(Children(v)[i], what)
  IN Own(v, what) + sum[Len(Children(v))]
\* How often ch occurs in text.
Count(text, ch) == Cardinality({i \in 1..Len(text) : text[i] = ch})

\* The text with each quoted string cut down to its opening quote (a
\* backslash in a string takes the character after it along): the brackets,
\* braces, commas, colons and bare literals stay. quoted tells whether text
\* starts inside a string.
RECURSIVE Structure(_, _)
Structure(text, quoted) ==
  IF text = <<>> THEN <<>>
  ELSE IF Head(text) = Ord("\"")
    THEN (IF quoted THEN <<>> ELSE <<Ord("\"")>>) \o Structure(Tail(text), ~quoted)
  ELSE IF quoted /\ Head(text) = Ord("\\") /\ Len(text) > 1
    THEN Structure(Tail(Tail(text)), quoted)
  ELSE IF quoted THEN Structure(Tail(text), quoted)
  ELSE <<Head(text)>> \o Structure(Tail(text), quoted)
\* The structure of the text to_string returned.
Written == Structure(encoded.out, FALSE)

\* C13: a successful encode writes, for every sequence of n elements at any
\* depth, one [ and one ] and n-1 commas, and for every struct or map of n
\* entries one { and one } and n-1 commas; no comma follows an opening
\* bracket or brace, or comes before a closing one or another comma.
C13_CommaPlacement ==
  (op = "to_string" /\ encoded.ok /\ value.k \in {"seq", "struct", "map", "enum"}) =>
    /\ Count(Written, Ord(",")) = Total(value, ",")
    /\ Count(Written, Ord("[")) = Total(value, "[")
    /\ Count(Written, Ord("]")) = Count(Written, Ord("["))
    /\ Count(Written, Ord("{")) = Total(value, "{")
    /\ Count(Written, Ord("}")) = Count(Written, Ord("{"))
    /\ \A i \in 1..(Len(Written) - 1) :
         /\ Written[i] \in {Ord("["), Ord("{"), Ord(",")} => Written[i + 1] # Ord(",")
         /\ Written[i] = Ord(",") => Written[i + 1] \notin {Ord("]"), Ord("}")}
    /\ value.k = "seq" => Head(Written) = Ord("[") /\ Written[Len(Written)] = Ord("]")
    /\ value.k \in {"struct", "map"} =>
         Head(Written) = Ord("{") /\ Written[Len(Written)] = Ord("}")

\* A sequence holding an empty sequence and one of two elements was encoded.
C13_Witness ==
  /\ op = "to_string"
  /\ encoded.ok
  /\ value = SeqVal(<<SeqVal(<<>>), SeqVal(<<IntVal("u32", FALSE, <<0>>), IntVal("u32", FALSE, <<1>>)>>)>>)
  /\ encoded.out = Lit(<<"[", "[", "]", ",", "[", "0", ",", "1", "]", "]">>)

\* The value of a hexadecimal digit, -1 for any other character.
HexValue(c) ==
  IF c \in 48..57 THEN c - 48
  ELSE IF c \in 97..102 THEN c - 87
  ELSE IF c \in 65..70 THEN c - 55
  ELSE -1
\* The number the four hexadecimal digits h write.
Hex4(h) == ((HexValue(h[1]) * 16 + HexValue(h[2])) * 16 + HexValue(h[3])) * 16 + HexValue(h[4])
\* The character a piece of a string body stands for: itself, or what the
\* string format says the escape means.
PieceChar(piece) ==
  IF Head(piece) # Ord("\\") THEN Head(piece)
  ELSE CASE piece[2] = Ord("b") -> 8
         [] piece[2] = Ord("f") -> 12
         [] piece[2] = Ord("n") -> 10
         [] piece[2] = Ord("r") -> 13
         [] piece[2] = Ord("t") -> 9
         [] piece[2] = Ord("u") -> Hex4(SubSeq(piece, 3, 6))
         [] OTHER -> piece[2]
\* The string the pieces of the last call's input stand for.
Unescaped == [i \in 1..Len(tokens) |-> PieceChar(tokens[i])]
\* A piece of the last call's input is an escape.
HasBackslash == \E i \in 1..Len(tokens) : Head(tokens[i]) = Ord("\\")

\* C14: a quoted string without a backslash decodes to a borrowed slice, the
\* bytes between the quotes; one with a backslash decodes to an owned String,
\* the characters before the first backslash and then every later character
\* with each escape replaced; the cursor ends just after the closing quote.
C14_BorrowedOrOwned ==
  op = "from_str_string" =>
    /\ base.ok
    /\ base.cow = (IF HasBackslash THEN "Owned" ELSE "Borrowed")
    /\ ~HasBackslash => base.val = Concat(tokens)
    /\ base.val = Unescaped
    /\ base.rest = pads[1]

\* The string "é\n" followed by a comma was decoded: owned, two characters,
\* the comma left.
C14_Witness ==
  /\ op = "from_str_string"
  /\ tokens = <<<<233>>, Lit(<<"\\", "n">>)>>
  /\ base.ok
  /\ base.cow = "Owned"
  /\ base.val = <<233, 10>>
  /\ base.rest = Lit(<<",">>)

\* What follows the first backslash of the last call's input.
AfterBackslash ==
  SubSeq(input, 1 + CHOOSE i \in 1..Len(input) :
                      input[i] = Ord("\\") /\ \A j \in 1..(i - 1) : input[j] # Ord("\\"),
         Len(input))
\* The error the string format gives for what follows a backslash: rest is
\* no escape, or stops short of one.
EscapeError(rest) ==
  IF rest = <<>> THEN UnexpectedEnd
  ELSE IF Head(rest) = Ord("u")
    THEN LET digits == SubSeq(rest, 2, IF Len(rest) < 5 THEN Len(rest) ELSE 5) IN
         IF \E i \in 1..Len(digits) : HexValue(digits[i]) < 0 THEN InvalidUnicodeEscapeSequence
         ELSE IF Len(digits) < 4 THEN UnexpectedEnd
         ELSE UnexpectedUnicodeEscapeSequence(Hex4(digits))
  ELSE UnexpectedToken(Head(rest))

\* C16: in a quoted string a backslash with one of " \ / b f n r t is that
\* one character, and \u with four hexadecimal digits is the character of
\* that code point, six bytes taken; a digit that is not hexadecimal is
\* InvalidUnicodeEscapeSequence, a surrogate is UnexpectedUnicodeEscapeSequence
\* with the value, another character after the backslash is UnexpectedToken
\* with it, and the end of the input in an escape is UnexpectedEnd.
C16_Escapes ==
  /\ op = "from_str_string" =>
       /\ decoded.ok
       /\ decoded.val = StrVal(Unescaped)
       /\ cursor = pads[1]
  /\ op = "from_str_escape" =>
       /\ ~decoded.ok
       /\ decoded.err = EscapeError(AfterBackslash)

\* The text "\uD800 was decoded: the error carries the surrogate.
C16_Witness ==
  /\ op = "from_str_escape"
  /\ input = Lit(<<"\"", "\\", "u", "D", "8", "0", "0">>)
  /\ ~decoded.ok
  /\ decoded.err = UnexpectedUnicodeEscapeSequence(55296)

\* How deep the brackets and braces of text are nested at most; open counts
\* the ones open where text starts.
RECURSIVE Nesting(_, _)
Nesting(text, open) ==
  IF text = <<>> THEN open
  ELSE LET deeper == Nesting(Tail(text),
                             IF Head(text) \in {Ord("["), Ord("{")} THEN open + 1
                             ELSE IF Head(text) \in {Ord("]"), Ord("}")} THEN open - 1
                             ELSE open)
       IN IF deeper > open THEN deeper ELSE open

\* C15: the decoder's recursion is bounded by a fixed limit, and an input
\* nested deeper than the limit is refused with an error. Stated for the
\* deepest inputs: one nested MaxNesting deep or deeper is past the limit.
C15_DepthLimit ==
  (op = "from_str_nested" /\ Nesting(input, 0) >= MaxNesting) => ~decoded.ok

\* C17: deserialize_seq, deserialize_map and deserialize_enum on a text whose
\* first character after the whitespace is not the opening character they
\* expect fail with UnexpectedToken carrying that character, also when it is
\* the last character of the text.
C17_BadOpenReportsCharacter ==
  op = "from_str_bad_open" => decoded = Err(UnexpectedToken(Head(Trimmed)))

Closers == {Ord("]"), Ord("}"), Ord("\"")}
\* The text before the appended characters: the tokens as they were decoded.
Original == Join(tokens, pads)
EndsClosed == Original # <<>> /\ Original[Len(Original)] \in Closers

\* C18: from_str does not look at what follows the value: when a text that
\* ends with a closing bracket, brace or quote decodes, the text with any
\* characters appended decodes too, to the same value.
C18_TrailingIgnored ==
  (op = "trailing" /\ base.ok /\ EndsClosed) => (decoded.ok /\ decoded = base)

C18_Witness ==
  /\ op = "trailing"
  /\ ty = TTest
  /\ base.ok /\ EndsClosed
  /\ input = Original \o Lit(<<",", "1">>)
  /\ decoded = base

====
